---- MODULE Spec2Model ----
(***************************************************************************)
(* Brand sponsorship analysis backend (src/backend/app.py): the job        *)
(* tracker AnalysisStatus, the single-video pipeline                       *)
(* analyze_video_with_progress, the parallel orchestrator                  *)
(* analyze_multiple_videos_with_progress with its per-video units          *)
(* analyze_single_video_parallel, the merge combine_video_analyses and the *)
(* status endpoint get_analysis_status.                                    *)
(*                                                                         *)
(* Threads interleave at lock acquisitions and at blocking calls to the    *)
(* external services.  An action is the code a thread runs between two     *)
(* blocking calls, with every update_job it performs applied in order.     *)
(*                                                                         *)
(* Python values: None is the empty sequence <<>> and a present value x is *)
(* <<x>>.  Seconds are integers; video_duration_minutes, which the code    *)
(* rounds to one decimal, is kept in tenths of a minute.  A dict object    *)
(* has an identity (field oid): get_job returns the dict itself, not a     *)
(* copy, so a holder of the returned value is modelled as holding the oid. *)
(***************************************************************************)
EXTENDS Integers, Sequences, FiniteSets, TLC

VARIABLES
    clock,                \* datetime.now() in milliseconds, as last read
    statuses,             \* AnalysisStatus.statuses: job id -> job dict
    detached,             \* job dicts no longer in the table but still referenced
    video_ids,            \* body of the multi-video request
    pc,                   \* runner -> position of its thread
    jid,                  \* runner -> job_id / temp_job_id
    rvid,                 \* runner -> video_id
    temp_status,          \* runner -> oid of the dict get_job returned (NoRef: none)
    result,               \* runner -> value returned by analyze_single_video_parallel
    mpc,                  \* position of analyze_multiple_videos_with_progress
    mjid,                 \* job id of the multi-video job
    completed_videos,     \* local of the orchestrator
    individual_analyses,  \* local of the orchestrator
    poll_pc,              \* position of a get_analysis_status request
    poll_ref,             \* oid of the dict that request got (NoRef: none)
    poll_resp,            \* HTTP status of the last answer
    call,                 \* the operation exercised on its own, with its arguments
    ret                   \* what that operation returned

vars == <<clock, statuses, detached, video_ids, pc, jid, rvid,
          temp_status, result, mpc, mjid, completed_videos, individual_analyses,
          poll_pc, poll_ref, poll_resp, call, ret>>

----------------------------------------------------------------------------
(* Bounds of the model *)

\* the clock stops advancing at MaxClock
MaxClock == 1

\* longest list of video ids a multi-video request carries under Spec
MaxVideos == 2

\* longest list of records the detection service returns under SpecRecords
MaxRecords == 2

\* the number of analyses in a list handed to the merge is at most MaxMerge
MaxMerge == 3

\* most words of a name given to is_valid_brand
MaxWords == 3

\* under SpecTable the clock runs over the whole hours 0..MaxHours, and a
\* purge is asked for 0..MaxHours hours
MaxHours == 1

----------------------------------------------------------------------------
(* Python values *)

None == <<>>

Some(x) == <<x>>

Min(a, b) == IF a < b THEN a ELSE b

RECURSIVE SumSeq(_)
SumSeq(s) == IF s = <<>> THEN 0 ELSE Head(s) + SumSeq(Tail(s))

RECURSIVE Concat(_)
Concat(ss) == IF ss = <<>> THEN <<>> ELSE Head(ss) \o Concat(Tail(ss))

----------------------------------------------------------------------------
(* The external services: the video index and the detection service *)

Videos == {"a", "b", "c", "d", "e"}

\* system_metadata.duration of each indexed video, in seconds; video "e" is
\* indexed without a duration
VideoDuration ==
    [v \in Videos |->
        CASE v = "a" -> Some(600)
          [] v = "b" -> Some(100)
          [] v = "c" -> Some(600)
          [] v = "d" -> Some(20)
          [] OTHER   -> None]

\* the JSON array the detection service returns for each video
DetectionsOf ==
    [v \in Videos |->
        CASE v = "a" -> << [brand |-> "Nike", timeline |-> <<10, 20>>,
                            sponsorship_category |-> "in_game_placement"] >>
          [] v = "b" -> << [brand |-> "Nike", timeline |-> <<5, 15>>,
                            sponsorship_category |-> "ad_placement"] >>
          [] v = "c" -> << [brand |-> "Ford", timeline |-> <<0, 30>>,
                            sponsorship_category |-> "in_game_placement"] >>
          [] v = "d" -> << >>
          [] OTHER   -> << [brand |-> "Nike", timeline |-> <<1, 2>>,
                            sponsorship_category |-> "in_game_placement"] >>]

----------------------------------------------------------------------------
(* AnalysisStatus *)

\* datetime.isoformat() of the time t (milliseconds): the seconds and, only
\* when it is not zero, the fraction of the second
isoformat(t) ==
    [seconds |-> t \div 1000,
     fraction |-> IF t % 1000 = 0 THEN None ELSE Some(t % 1000)]

\* datetime.fromisoformat(x), in milliseconds
fromisoformat(x) ==
    x.seconds * 1000 + (IF x.fraction = None THEN 0 ELSE x.fraction[1])

\* the dict create_job stores; oid is the identity of the new dict object
NewJob(t, oid) ==
    [status |-> "pending", progress |-> 0, stage |-> "none",
     data |-> None, error |-> None, created_at |-> isoformat(t), oid |-> oid]

\* S with id mapped to r, whether or not id was in S
Store(S, id, r) ==
    [i \in DOMAIN S \cup {id} |-> IF i = id THEN r ELSE S[i]]

create_job_keep(S, job_id, t, oid) ==
    IF job_id \in DOMAIN S THEN S ELSE Store(S, job_id, NewJob(t, oid))

create_job(S, job_id, t, oid) == Store(S, job_id, NewJob(t, oid))

\* dict.update: the keys of updates replace those of the job dict, in place
MergeDict(r, updates) ==
    [k \in DOMAIN r |-> IF k \in DOMAIN updates THEN updates[k] ELSE r[k]]

\* an update that would add the job it does not find
update_job_upsert(S, job_id, updates) ==
    IF job_id \in DOMAIN S
    THEN [S EXCEPT ![job_id] = MergeDict(@, updates)]
    ELSE Store(S, job_id, MergeDict(NewJob(0, <<job_id, 0>>), updates))

update_job(S, job_id, updates) ==
    IF job_id \in DOMAIN S
    THEN [S EXCEPT ![job_id] = MergeDict(@, updates)]
    ELSE S

\* timedelta(hours=1), in milliseconds
HOUR_MS == 3600000

\* the jobs cleanup_old_jobs removes at time now: created before the cutoff
to_remove(S, now, hours) ==
    {id \in DOMAIN S : fromisoformat(S[id].created_at) < now - hours * HOUR_MS}

\* a purge that also takes the jobs created at the cutoff
cleanup_old_jobs_inclusive(S, now, hours) ==
    [id \in {i \in DOMAIN S :
                 fromisoformat(S[i].created_at) > now - hours * HOUR_MS} |-> S[id]]

cleanup_old_jobs(S, now, hours) ==
    [id \in DOMAIN S \ to_remove(S, now, hours) |-> S[id]]

\* no dict: the None that get_job returns for an unknown id
NoRef == <<>>

\* the oid of the dict in the table, NoRef for None
get_job(S, job_id) ==
    IF job_id \in DOMAIN S THEN S[job_id].oid ELSE NoRef

OidsOf(S) == {S[i].oid : i \in DOMAIN S}

\* the dict object o as it is now: in the table S or among the detached D
Deref(S, D, o) ==
    IF o \in OidsOf(S)
    THEN S[CHOOSE i \in DOMAIN S : S[i].oid = o]
    ELSE D[o]

\* identity of a newly allocated dict for job id: the id and the least
\* number that tells it from the live dicts created for the same id
FreshOid(S, D, id) ==
    LET used == OidsOf(S) \cup DOMAIN D
    IN  <<id, CHOOSE n \in 1..(Cardinality(used) + 1) :
                 /\ <<id, n>> \notin used
                 /\ \A m \in 1..(n - 1) : <<id, m>> \in used>>

\* the dicts that left the table S2 and that a holder in H still references
Detached(S, D, S2, H) ==
    [o \in {h \in H : h # NoRef /\ h \notin OidsOf(S2)} |-> Deref(S, D, o)]

----------------------------------------------------------------------------
(* Job ids *)

\* f"{video_id}-{ms}"
SingleJobId(v, t) == <<"single", <<v>>, t>>

\* f"{video_id}-temp-{ms}"
TempJobId(v, t) == <<"temp", <<v>>, t>>

\* f"multi-{'-'.join(video_ids[:3])}-{ms}"
MultiJobId(vids, t) == <<"multi", SubSeq(vids, 1, Min(3, Len(vids))), t>>

UnknownJobId == <<"single", <<"zz">>, 0>>

----------------------------------------------------------------------------
(* analyze_video_with_progress: the computation on the detections *)

\* round(video_duration / 60, 1), in tenths of a minute.  No duration of the
\* model is a tie (a multiple of 3 that is not a multiple of 6).
RoundMinutes(seconds) == (2 * seconds + 6) \div 12

\* brand names in the order the loop first meets them (dict insertion order)
RECURSIVE BrandOrder(_, _)
BrandOrder(apps, seen) ==
    IF apps = <<>> THEN seen
    ELSE BrandOrder(Tail(apps),
                    IF \E k \in 1..Len(seen) : seen[k] = Head(apps).brand
                    THEN seen ELSE Append(seen, Head(apps).brand))

AppearancesOf(apps, b) == SelectSeq(apps, LAMBDA x : x.brand = b)

Exposure(app) == app.timeline[2] - app.timeline[1]

TotalExposure(apps) == SumSeq([k \in 1..Len(apps) |-> Exposure(apps[k])])

\* one entry of brand_metrics
BrandMetric(apps, b) ==
    [brand |-> b,
     total_exposure_time |-> TotalExposure(AppearancesOf(apps, b)),
     total_appearances |-> Len(AppearancesOf(apps, b)),
     appearances |-> AppearancesOf(apps, b)]

BrandMetrics(apps) ==
    LET brands == BrandOrder(apps, <<>>)
    IN  [k \in 1..Len(brands) |-> BrandMetric(apps, brands[k])]

\* the 'data' of the completing update
AnalysisData(v, seconds, apps) ==
    LET brands == BrandOrder(apps, <<>>)
    IN  [summary |-> [video_duration_minutes |-> RoundMinutes(seconds),
                      total_brands_detected |-> Len(brands),
                      total_brand_appearances |-> Len(apps)],
         brand_metrics |-> BrandMetrics(apps),
         raw_detections |->
             Concat([k \in 1..Len(brands) |-> AppearancesOf(apps, brands[k])]),
         video_id |-> v]

----------------------------------------------------------------------------
(* combine_video_analyses *)

\* a copy of the appearance with both ends of its timeline moved by offset
OffsetAppearance(app, offset) ==
    [app EXCEPT !.timeline = <<app.timeline[1] + offset, app.timeline[2] + offset>>]

OffsetAll(apps, offset) ==
    [k \in 1..Len(apps) |-> OffsetAppearance(apps[k], offset)]

\* video_duration_seconds = summary['video_duration_minutes'] * 60
DurationSeconds(analysis) == analysis.summary.video_duration_minutes * 6

\* cumulative_duration_seconds when the loop reaches position k of present
CumulativeOffset(present, k) ==
    SumSeq([j \in 1..(k - 1) |-> DurationSeconds(present[j])])

VideosAnalyzed(present) ==
    [k \in 1..Len(present) |->
        [video_id |-> present[k].video_id,
         duration_minutes |-> present[k].summary.video_duration_minutes,
         start_time_seconds |-> CumulativeOffset(present, k),
         end_time_seconds |->
             CumulativeOffset(present, k) + DurationSeconds(present[k])]]

\* the metrics of brand b in analysis x: a sequence of zero or one entry
MetricsFor(x, b) == SelectSeq(x.brand_metrics, LAMBDA m : m.brand = b)

CombinedMetric(present, b) ==
    LET per == [k \in 1..Len(present) |-> MetricsFor(present[k], b)]
        all == Concat(per)
    IN  [brand |-> b,
         total_exposure_time |->
             SumSeq([k \in 1..Len(all) |-> all[k].total_exposure_time]),
         total_appearances |->
             SumSeq([k \in 1..Len(all) |-> all[k].total_appearances]),
         appearances |->
             Concat([k \in 1..Len(present) |->
                 Concat([j \in 1..Len(per[k]) |->
                     OffsetAll(per[k][j].appearances,
                               CumulativeOffset(present, k))])])]

\* list.sort(key=total_exposure_time, reverse=True): stable, descending
RECURSIVE SortByExposure(_)
SortByExposure(ms) ==
    IF ms = <<>> THEN <<>>
    ELSE LET rest == SortByExposure(SubSeq(ms, 1, Len(ms) - 1))
             x == ms[Len(ms)]
             before == SelectSeq(rest,
                 LAMBDA m : m.total_exposure_time >= x.total_exposure_time)
             after == SelectSeq(rest,
                 LAMBDA m : m.total_exposure_time < x.total_exposure_time)
         IN  before \o <<x>> \o after

\* the analyses the loop does not skip: 'if not analysis: continue'
PresentAnalyses(individual) ==
    LET some == SelectSeq(individual, LAMBDA x : x # None)
    IN  [k \in 1..Len(some) |-> some[k][1]]

CombinedResult(individual, vids) ==
    LET present == PresentAnalyses(individual)
        names == BrandOrder(
            Concat([k \in 1..Len(present) |->
                [j \in 1..Len(present[k].brand_metrics) |->
                    present[k].brand_metrics[j]]]), <<>>)
        brand_list == SortByExposure(
            [k \in 1..Len(names) |-> CombinedMetric(present, names[k])])
    IN  [combined_summary |->
             [total_videos |-> Len(vids),
              combined_duration_minutes |->
                  SumSeq([k \in 1..Len(present) |->
                      present[k].summary.video_duration_minutes]),
              total_brands_detected |-> Len(brand_list),
              total_brand_appearances |->
                  SumSeq([k \in 1..Len(present) |->
                      present[k].summary.total_brand_appearances]),
              top_performing_brand |->
                  IF brand_list = <<>> THEN None ELSE Some(brand_list[1].brand),
              videos_analyzed |-> VideosAnalyzed(present)],
         combined_brand_metrics |-> brand_list,
         raw_detections |->
             Concat([k \in 1..Len(present) |->
                 OffsetAll(present[k].raw_detections,
                           CumulativeOffset(present, k))]),
         individual_analyses |-> individual,
         video_ids |-> vids]

\* the merge without its guard against an empty list
combine_video_analyses_unguarded(individual, vids) ==
    [ok |-> TRUE, error |-> None, value |-> Some(CombinedResult(individual, vids))]

\* ok = FALSE stands for the raised ValueError
combine_video_analyses(individual, vids) ==
    IF individual = <<>>
    THEN [ok |-> FALSE, error |-> Some("No successful analyses to combine"),
          value |-> None]
    ELSE [ok |-> TRUE, error |-> None,
          value |-> Some(CombinedResult(individual, vids))]

----------------------------------------------------------------------------
(* The threads *)

\* runner 0 is the thread start_analysis spawns; runner u >= 1 is the unit
\* analyze_single_video_parallel of video_ids[u]
Runners == 0..Len(video_ids)

Units == 1..Len(video_ids)

\* ThreadPoolExecutor(max_workers=min(4, len(video_ids)))
MAX_WORKERS == 4

max_workers_uncapped(vids) == Len(vids)

max_workers(vids) == Min(MAX_WORKERS, Len(vids))

\* video_duration = 300, the default when the metadata hold no duration
DEFAULT_DURATION == 300

\* the local video_duration of the pipeline run on video v
PipelineDuration(v) ==
    IF VideoDuration[v] # None THEN VideoDuration[v][1] ELSE DEFAULT_DURATION

\* a unit occupies a worker of the pool from its start to its return
Running(u) ==
    pc[u] \in {"created", "detecting", "scoring", "waiting",
               "got_completed", "got_failed"}

RunningUnits == {u \in Units : Running(u)}

\* the dict objects some thread holds a reference to
Held(ts, pr) == {ts[r] : r \in DOMAIN ts} \cup {pr}

\* where a runner goes when analyze_video_with_progress returns
AfterPipeline(r) == IF r = 0 THEN "finished" ELSE "waiting"

NoResult == [success |-> FALSE, data |-> None, error |-> None, video_id |-> "none"]

\* what the as_completed loop keeps of a unit's result
collect_result_always(analyses, res) == Append(analyses, res.data)

collect_result(analyses, res) ==
    IF res.success THEN Append(analyses, res.data) ELSE analyses

\* a progress that leaves no share to the merge
UnitsProgress_whole(completed, total) == (100 * completed) \div total

\* int((completed_videos / total_videos) * 80)
UnitsProgress(completed, total) == (80 * completed) \div total

\* no operation is exercised on its own
NoCall == [op |-> "none"]

RECURSIVE SeqsUpTo(_, _)
SeqsUpTo(S, n) ==
    IF n = 0 THEN {<<>>}
    ELSE LET shorter == SeqsUpTo(S, n - 1)
         IN  shorter \cup {Append(s, x) : s \in shorter, x \in S}

\* the request bodies of Spec: the lists of 1..MaxVideos ids, repeats included
RequestLists == SeqsUpTo({"a", "b"}, MaxVideos) \ {<<>>}

Init ==
    /\ clock = 0
    /\ statuses = <<>>
    /\ detached = <<>>
    /\ video_ids \in RequestLists
    /\ pc = [r \in Runners |-> "idle"]
    /\ jid = [r \in Runners |-> UnknownJobId]
    /\ rvid = [r \in Runners |-> IF r = 0 THEN "none" ELSE video_ids[r]]
    /\ temp_status = [r \in Runners |-> NoRef]
    /\ result = [r \in Runners |-> NoResult]
    /\ mpc = "idle"
    /\ mjid = UnknownJobId
    /\ completed_videos = 0
    /\ individual_analyses = <<>>
    /\ poll_pc = "idle"
    /\ poll_ref = NoRef
    /\ poll_resp = 0
    /\ call = NoCall
    /\ ret = None

\* a request of five distinct videos, one more than the pool has workers
InitPool ==
    /\ clock = MaxClock
    /\ statuses = <<>>
    /\ detached = <<>>
    /\ video_ids = <<"a", "b", "c", "d", "e">>
    /\ pc = [r \in Runners |-> "idle"]
    /\ jid = [r \in Runners |-> UnknownJobId]
    /\ rvid = [r \in Runners |-> IF r = 0 THEN "none" ELSE video_ids[r]]
    /\ temp_status = [r \in Runners |-> NoRef]
    /\ result = [r \in Runners |-> NoResult]
    /\ mpc = "idle"
    /\ mjid = UnknownJobId
    /\ completed_videos = 0
    /\ individual_analyses = <<>>
    /\ poll_pc = "idle"
    /\ poll_ref = NoRef
    /\ poll_resp = 0
    /\ call = NoCall
    /\ ret = None

\* a request that names the same video twice, made when the clock has
\* reached MaxClock: the two units read the same millisecond
InitRepeat ==
    /\ clock = MaxClock
    /\ statuses = <<>>
    /\ detached = <<>>
    /\ video_ids = <<"a", "a">>
    /\ pc = [r \in Runners |-> "idle"]
    /\ jid = [r \in Runners |-> UnknownJobId]
    /\ rvid = [r \in Runners |-> IF r = 0 THEN "none" ELSE video_ids[r]]
    /\ temp_status = [r \in Runners |-> NoRef]
    /\ result = [r \in Runners |-> NoResult]
    /\ mpc = "idle"
    /\ mjid = UnknownJobId
    /\ completed_videos = 0
    /\ individual_analyses = <<>>
    /\ poll_pc = "idle"
    /\ poll_ref = NoRef
    /\ poll_resp = 0
    /\ call = NoCall
    /\ ret = None

\* a request of three different videos, so that the share of the finished
\* units in 80 is not always a whole number
InitProgress ==
    /\ clock = MaxClock
    /\ statuses = <<>>
    /\ detached = <<>>
    /\ video_ids = <<"a", "b", "d">>
    /\ pc = [r \in Runners |-> "idle"]
    /\ jid = [r \in Runners |-> UnknownJobId]
    /\ rvid = [r \in Runners |-> IF r = 0 THEN "none" ELSE video_ids[r]]
    /\ temp_status = [r \in Runners |-> NoRef]
    /\ result = [r \in Runners |-> NoResult]
    /\ mpc = "idle"
    /\ mjid = UnknownJobId
    /\ completed_videos = 0
    /\ individual_analyses = <<>>
    /\ poll_pc = "idle"
    /\ poll_ref = NoRef
    /\ poll_resp = 0
    /\ call = NoCall
    /\ ret = None

\* no request is under way: only the job tracker exists
InitTable ==
    /\ Init
    /\ video_ids = <<"a">>

\* no request is under way and the operation of call c is about to run
InitCall(c) ==
    /\ clock = 0
    /\ statuses = <<>>
    /\ detached = <<>>
    /\ video_ids = <<"a">>
    /\ pc = [r \in Runners |-> "idle"]
    /\ jid = [r \in Runners |-> UnknownJobId]
    /\ rvid = [r \in Runners |-> IF r = 0 THEN "none" ELSE video_ids[r]]
    /\ temp_status = [r \in Runners |-> NoRef]
    /\ result = [r \in Runners |-> NoResult]
    /\ mpc = "idle"
    /\ mjid = UnknownJobId
    /\ completed_videos = 0
    /\ individual_analyses = <<>>
    /\ poll_pc = "idle"
    /\ poll_ref = NoRef
    /\ poll_resp = 0
    /\ call = c
    /\ ret = None

\* a request of two different videos
InitService ==
    /\ Init
    /\ video_ids = <<"a", "b">>

\* the table becomes S2 and no thread takes or drops a reference
TableStep(S2) ==
    /\ statuses' = S2
    /\ detached' = Detached(statuses, detached, S2, Held(temp_status, poll_ref))

----------------------------------------------------------------------------
(* start_analysis and start_multi_video_analysis *)

StartSingle ==
    \E v \in {"a", "b"}, t \in clock..MaxClock :
        /\ pc[0] = "idle"
        /\ clock' = t
        /\ jid' = [jid EXCEPT ![0] = SingleJobId(v, t)]
        /\ rvid' = [rvid EXCEPT ![0] = v]
        /\ TableStep(create_job(statuses, SingleJobId(v, t), t,
               FreshOid(statuses, detached, SingleJobId(v, t))))
        /\ pc' = [pc EXCEPT ![0] = "created"]
        /\ UNCHANGED <<call, ret, video_ids, temp_status, result, mpc, mjid,
                       completed_videos, individual_analyses,
                       poll_pc, poll_ref, poll_resp>>

StartMulti ==
    \E t \in clock..MaxClock :
        /\ mpc = "idle"
        /\ clock' = t
        /\ mjid' = MultiJobId(video_ids, t)
        /\ TableStep(create_job(statuses, MultiJobId(video_ids, t), t,
               FreshOid(statuses, detached, MultiJobId(video_ids, t))))
        /\ mpc' = "started"
        /\ UNCHANGED <<call, ret, video_ids, pc, jid, rvid, temp_status,
                       result, completed_videos, individual_analyses,
                       poll_pc, poll_ref, poll_resp>>

----------------------------------------------------------------------------
(* analyze_video_with_progress, run by runner r on job jid[r] *)

Processing(stage, progress) ==
    [status |-> "processing", stage |-> stage, progress |-> progress]

\* a failure that records the error and leaves the status as it is
Failed_keeping_status(msg) == [error |-> Some(msg)]

Failed(msg) == [status |-> "failed", error |-> Some(msg)]

Completed(data) == [status |-> "completed", progress |-> 100, data |-> Some(data)]

RECURSIVE UpdateAll(_, _, _)
UpdateAll(S, job_id, updates) ==
    IF updates = <<>> THEN S
    ELSE UpdateAll(update_job(S, job_id, Head(updates)), job_id, Tail(updates))

PipelineUnchanged ==
    UNCHANGED <<call, ret, clock, video_ids, jid, rvid, temp_status, result, mpc, mjid,
                completed_videos, individual_analyses,
                poll_pc, poll_ref, poll_resp>>

\* from the entry to the call of the detection service
PipelineBegin(r) ==
    /\ pc[r] = "created"
    /\ TableStep(UpdateAll(statuses, jid[r],
           << Processing("initialization", 0), Processing("brand_detection", 25),
              Processing("brand_analysis", 30), Processing("brand_analysis", 35) >>))
    /\ pc' = [pc EXCEPT ![r] = "detecting"]
    /\ PipelineUnchanged

\* client.analyze returns; the metadata are read; the appearances are
\* grouped by brand; the scoring calls begin
DetectReturn(r) ==
    /\ pc[r] = "detecting"
    /\ TableStep(UpdateAll(statuses, jid[r],
           << Processing("brand_analysis", 50), Processing("processing", 60),
              Processing("metrics", 75) >>))
    /\ pc' = [pc EXCEPT ![r] = "scoring"]
    /\ PipelineUnchanged

\* client.analyze raises
DetectRaise(r) ==
    /\ pc[r] = "detecting"
    /\ TableStep(update_job(statuses, jid[r], Failed("detection failed")))
    /\ pc' = [pc EXCEPT ![r] = AfterPipeline(r)]
    /\ PipelineUnchanged

\* every brand is scored
ScoreReturn(r) ==
    /\ pc[r] = "scoring"
    /\ TableStep(UpdateAll(statuses, jid[r],
           << Processing("finalizing", 90),
              Completed(AnalysisData(rvid[r], PipelineDuration(rvid[r]),
                                     DetectionsOf[rvid[r]])) >>))
    /\ pc' = [pc EXCEPT ![r] = AfterPipeline(r)]
    /\ PipelineUnchanged

\* the scoring of some brand raises
ScoreRaise(r) ==
    /\ pc[r] = "scoring"
    /\ DetectionsOf[rvid[r]] # <<>>
    /\ TableStep(update_job(statuses, jid[r],
           Failed("AI analysis is required for brand metrics")))
    /\ pc' = [pc EXCEPT ![r] = AfterPipeline(r)]
    /\ PipelineUnchanged

----------------------------------------------------------------------------
(* analyze_single_video_parallel, run by a worker of the pool *)

\* a free worker takes the oldest queued task; the unit names and creates its
\* temporary job
UnitCreate(u) ==
    \E t \in clock..MaxClock :
        /\ u \in Units
        /\ pc[u] = "queued"
        /\ \A w \in Units : w < u => pc[w] # "queued"
        /\ Cardinality(RunningUnits) < max_workers(video_ids)
        /\ clock' = t
        /\ jid' = [jid EXCEPT ![u] = TempJobId(rvid[u], t)]
        /\ TableStep(create_job(statuses, TempJobId(rvid[u], t), t,
               FreshOid(statuses, detached, TempJobId(rvid[u], t))))
        /\ pc' = [pc EXCEPT ![u] = "created"]
        /\ UNCHANGED <<call, ret, video_ids, rvid, temp_status, result, mpc,
                       mjid, completed_videos, individual_analyses,
                       poll_pc, poll_ref, poll_resp>>

\* one turn of the wait loop: temp_status = get_job(temp_job_id) and the test
\* of temp_status['status']; neither terminal status means sleep and retry
UnitPoll(u) ==
    /\ u \in Units
    /\ pc[u] = "waiting"
    /\ get_job(statuses, jid[u]) # NoRef
    /\ LET st == statuses[jid[u]].status
       IN  /\ pc' = [pc EXCEPT ![u] =
                  CASE st = "completed" -> "got_completed"
                    [] st = "failed"    -> "got_failed"
                    [] OTHER            -> "waiting"]
           /\ temp_status' = [temp_status EXCEPT ![u] =
                  IF st \in {"completed", "failed"}
                  THEN get_job(statuses, jid[u]) ELSE NoRef]
    /\ statuses' = statuses
    /\ detached' = Detached(statuses, detached, statuses',
                            Held(temp_status', poll_ref))
    /\ UNCHANGED <<call, ret, clock, video_ids, jid, rvid, result, mpc, mjid,
                   completed_videos, individual_analyses,
                   poll_pc, poll_ref, poll_resp>>

\* the read of temp_status['data'] or temp_status.get('error'), and the return
UnitRead(u) ==
    /\ u \in Units
    /\ pc[u] \in {"got_completed", "got_failed"}
    /\ LET job == Deref(statuses, detached, temp_status[u])
       IN  result' = [result EXCEPT ![u] =
               IF pc[u] = "got_completed"
               THEN [success |-> TRUE, data |-> job.data, error |-> None,
                     video_id |-> rvid[u]]
               ELSE [success |-> FALSE, data |-> None, error |-> job.error,
                     video_id |-> rvid[u]]]
    /\ temp_status' = [temp_status EXCEPT ![u] = NoRef]
    /\ pc' = [pc EXCEPT ![u] = "returned"]
    /\ statuses' = statuses
    /\ detached' = Detached(statuses, detached, statuses',
                            Held(temp_status', poll_ref))
    /\ UNCHANGED <<call, ret, clock, video_ids, jid, rvid, mpc, mjid,
                   completed_videos, individual_analyses,
                   poll_pc, poll_ref, poll_resp>>

----------------------------------------------------------------------------
(* analyze_multiple_videos_with_progress *)

\* the first update and the submission of one task per requested video
MultiBegin ==
    /\ mpc = "started"
    /\ TableStep(update_job(statuses, mjid, Processing("initialization", 0)))
    /\ pc' = [r \in Runners |-> IF r \in Units THEN "queued" ELSE pc[r]]
    /\ mpc' = "running"
    /\ UNCHANGED <<call, ret, clock, video_ids, jid, rvid, temp_status,
                   result, mjid, completed_videos, individual_analyses,
                   poll_pc, poll_ref, poll_resp>>

\* one turn of the as_completed loop, on a future that is done
MultiCollect(u) ==
    /\ mpc = "running"
    /\ u \in Units
    /\ pc[u] = "returned"
    /\ completed_videos' = completed_videos + 1
    /\ individual_analyses' = collect_result(individual_analyses, result[u])
    /\ TableStep(update_job(statuses, mjid,
           Processing("brand_analysis",
                      UnitsProgress(completed_videos + 1, Len(video_ids)))))
    /\ pc' = [pc EXCEPT ![u] = "collected"]
    /\ UNCHANGED <<call, ret, clock, video_ids, jid, rvid, temp_status,
                   result, mpc, mjid, poll_pc, poll_ref, poll_resp>>

\* every future is done: the pool is left and the merge is announced
MultiFinalizing ==
    /\ mpc = "running"
    /\ \A u \in Units : pc[u] = "collected"
    /\ TableStep(update_job(statuses, mjid, Processing("finalizing", 85)))
    /\ mpc' = "combining"
    /\ UNCHANGED <<call, ret, clock, video_ids, pc, jid, rvid, temp_status,
                   result, mjid, completed_videos, individual_analyses,
                   poll_pc, poll_ref, poll_resp>>

\* the merge and the terminal update
MultiCombine ==
    /\ mpc = "combining"
    /\ LET combined == combine_video_analyses(individual_analyses, video_ids)
       IN  TableStep(update_job(statuses, mjid,
               IF combined.ok
               THEN Completed(combined.value[1])
               ELSE Failed(combined.error[1])))
    /\ mpc' = "done"
    /\ UNCHANGED <<call, ret, clock, video_ids, pc, jid, rvid, temp_status,
                   result, mjid, completed_videos, individual_analyses,
                   poll_pc, poll_ref, poll_resp>>

----------------------------------------------------------------------------
(* get_analysis_status *)

\* the job ids a client asks for: those the start endpoints answered with,
\* and one that names no job
ClientIds == {mjid, jid[0], UnknownJobId}

\* status = get_job(job_id) finds no job: 404
PollNotFound ==
    \E id \in ClientIds :
        /\ poll_pc = "idle"
        /\ get_job(statuses, id) = NoRef
        /\ poll_resp' = 404
        /\ UNCHANGED <<call, ret, clock, statuses, detached, video_ids, pc, jid, rvid,
                       temp_status, result, mpc, mjid,
                       completed_videos, individual_analyses, poll_pc, poll_ref>>

\* status = get_job(job_id) returns the job dict
PollGet ==
    \E id \in ClientIds :
        /\ poll_pc = "idle"
        /\ get_job(statuses, id) # NoRef
        /\ poll_ref' = get_job(statuses, id)
        /\ poll_pc' = "got"
        /\ UNCHANGED <<call, ret, clock, statuses, detached, video_ids, pc, jid, rvid,
                       temp_status, result, mpc, mjid,
                       completed_videos, individual_analyses, poll_resp>>

\* jsonify(status) reads the dict and the reference is dropped
PollRespond ==
    /\ poll_pc = "got"
    /\ poll_resp' = 200
    /\ poll_ref' = NoRef
    /\ poll_pc' = "idle"
    /\ statuses' = statuses
    /\ detached' = Detached(statuses, detached, statuses',
                            Held(temp_status, poll_ref'))
    /\ UNCHANGED <<call, ret, clock, video_ids, pc, jid, rvid, temp_status,
                   result, mpc, mjid, completed_videos, individual_analyses>>

----------------------------------------------------------------------------
(* AnalysisStatus on its own: its four methods called with any arguments *)

TableIds == {UnknownJobId, SingleJobId("a", 0)}

TableUpdates == {Failed("failed")}

\* the times datetime.now() can return from now on
TableTimes == {h * HOUR_MS : h \in 0..MaxHours} \ 0..(clock - 1)

TableUnchanged ==
    UNCHANGED <<video_ids, pc, jid, rvid, temp_status, result, mpc, mjid,
                completed_videos, individual_analyses,
                poll_pc, poll_ref, poll_resp>>

TableCreate ==
    \E id \in TableIds, t \in TableTimes :
        /\ clock' = t
        /\ TableStep(create_job(statuses, id, t, FreshOid(statuses, detached, id)))
        /\ call' = [op |-> "create", job_id |-> id, known |-> id \in DOMAIN statuses]
        /\ ret' = None
        /\ TableUnchanged

TableUpdate ==
    \E id \in TableIds, updates \in TableUpdates :
        /\ TableStep(update_job(statuses, id, updates))
        /\ call' = [op |-> "update", job_id |-> id, known |-> id \in DOMAIN statuses]
        /\ ret' = None
        /\ clock' = clock
        /\ TableUnchanged

TableGet ==
    \E id \in TableIds :
        /\ call' = [op |-> "get", job_id |-> id, known |-> id \in DOMAIN statuses]
        /\ ret' = get_job(statuses, id)
        /\ UNCHANGED <<clock, statuses, detached>>
        /\ TableUnchanged

TableCleanup ==
    \E hours \in 0..MaxHours, t \in TableTimes :
        /\ clock' = t
        /\ TableStep(cleanup_old_jobs(statuses, t, hours))
        /\ call' = [op |-> "cleanup", now |-> t, hours |-> hours,
                    removed |-> Cardinality(to_remove(statuses, t, hours))]
        /\ ret' = None
        /\ TableUnchanged

----------------------------------------------------------------------------
(* is_valid_brand.  A Python string is the sequence of its characters. *)

\* keywords that indicate it is not a commercial brand
non_brand_keywords ==
  {
    <<"h", "i", "g", "h", " ", "s", "c", "h", "o", "o", "l">>,
    <<"c", "o", "l", "l", "e", "g", "e">>,
    <<"u", "n", "i", "v", "e", "r", "s", "i", "t", "y">>,
    <<"t", "e", "a", "m">>,
    <<"f", "o", "o", "t", "b", "a", "l", "l">>,
    <<"b", "a", "s", "k", "e", "t", "b", "a", "l", "l">>,
    <<"b", "a", "s", "e", "b", "a", "l", "l">>,
    <<"s", "o", "c", "c", "e", "r">>,
    <<"a", "t", "h", "l", "e", "t", "i", "c", "s">>,
    <<"s", "p", "o", "r", "t", "s">>,
    <<"c", "l", "u", "b">>,
    <<"a", "c", "a", "d", "e", "m", "y">>,
    <<"i", "n", "s", "t", "i", "t", "u", "t", "e">>,
    <<"s", "c", "h", "o", "o", "l">>,
    <<"d", "i", "s", "t", "r", "i", "c", "t">>,
    <<"c", "o", "u", "n", "t", "y">>,
    <<"c", "i", "t", "y">>,
    <<"s", "t", "a", "t", "e">>,
    <<"n", "a", "t", "i", "o", "n", "a", "l">>,
    <<"t", "o", "u", "r", "n", "a", "m", "e", "n", "t">>,
    <<"c", "h", "a", "m", "p", "i", "o", "n", "s", "h", "i", "p">>,
    <<"l", "e", "a", "g", "u", "e">>,
    <<"d", "i", "v", "i", "s", "i", "o", "n">>,
    <<"c", "o", "n", "f", "e", "r", "e", "n", "c", "e">>,
    <<"g", "u", "y">>,
    <<"j", "o", "h", "n">>,
    <<"m", "i", "k", "e">>,
    <<"d", "a", "v", "i", "d">>,
    <<"r", "o", "b", "e", "r", "t">>,
    <<"j", "a", "m", "e", "s">>,
    <<"w", "i", "l", "l", "i", "a", "m">>,
    <<"r", "i", "c", "h", "a", "r", "d">>,
    <<"c", "h", "a", "r", "l", "e", "s">>,
    <<"j", "o", "e">>
  }

\* suffixes that indicate educational institutions
educational_suffixes ==
  {
    <<"C", "o", "l", "l", "e", "g", "e">>,
    <<"U", "n", "i", "v", "e", "r", "s", "i", "t", "y">>,
    <<"S", "c", "h", "o", "o", "l">>,
    <<"A", "c", "a", "d", "e", "m", "y">>,
    <<"I", "n", "s", "t", "i", "t", "u", "t", "e">>
  }

\* the first names of the person's name pattern
person_names ==
  {
    <<"g", "u", "y">>,
    <<"j", "o", "h", "n">>,
    <<"m", "i", "k", "e">>,
    <<"d", "a", "v", "i", "d">>,
    <<"r", "o", "b", "e", "r", "t">>
  }

\* single words that are too generic
generic_places ==
  {
    <<"b", "e", "r", "k", "e", "l", "e", "y">>,
    <<"c", "a", "m", "b", "r", "i", "d", "g", "e">>,
    <<"o", "x", "f", "o", "r", "d">>,
    <<"s", "t", "a", "n", "f", "o", "r", "d">>
  }

\* the whitelist of known brands
known_brands ==
  {
    <<"f", "o", "r", "d">>,
    <<"n", "i", "k", "e">>,
    <<"a", "d", "i", "d", "a", "s">>,
    <<"c", "o", "c", "a", "-", "c", "o", "l", "a">>,
    <<"p", "e", "p", "s", "i">>,
    <<"h", "o", "n", "d", "a">>,
    <<"t", "o", "y", "o", "t", "a">>,
    <<"m", "i", "c", "r", "o", "s", "o", "f", "t">>,
    <<"a", "p", "p", "l", "e">>,
    <<"g", "o", "o", "g", "l", "e">>,
    <<"a", "m", "a", "z", "o", "n">>,
    <<"w", "a", "l", "m", "a", "r", "t">>,
    <<"t", "a", "r", "g", "e", "t">>,
    <<"h", "o", "n", "-", "d", "a", "h">>,
    <<"h", "o", "n", "d", "a", "h">>
  }

\* str.lower() and str.isupper() on one character
UpperCase ==
    "A" :> "a" @@ "B" :> "b" @@ "C" :> "c" @@ "D" :> "d" @@ "E" :>
        "e" @@ "F" :> "f" @@ "G" :> "g" @@ "H" :> "h" @@ "I" :> "i" @@
        "J" :> "j" @@ "K" :> "k" @@ "L" :> "l" @@ "M" :> "m" @@ "N" :>
        "n" @@ "O" :> "o" @@ "P" :> "p" @@ "Q" :> "q" @@ "R" :> "r" @@
        "S" :> "s" @@ "T" :> "t" @@ "U" :> "u" @@ "V" :> "v" @@ "W" :>
        "w" @@ "X" :> "x" @@ "Y" :> "y" @@ "Z" :> "z"

IsUpper(c) == c \in DOMAIN UpperCase

LowerChar(c) == IF IsUpper(c) THEN UpperCase[c] ELSE c

Lower(s) == [k \in 1..Len(s) |-> LowerChar(s[k])]

\* w in s
IsSubstring(w, s) ==
    \E i \in 0..(Len(s) - Len(w)) : SubSeq(s, i + 1, i + Len(w)) = w

\* s.endswith(w)
EndsWith(s, w) ==
    Len(w) <= Len(s) /\ SubSeq(s, Len(s) - Len(w) + 1, Len(s)) = w

\* s.strip(): without the blanks at its two ends
RECURSIVE Strip(_)
Strip(s) ==
    IF s = <<>> THEN s
    ELSE IF Head(s) = " " THEN Strip(Tail(s))
    ELSE IF s[Len(s)] = " " THEN Strip(SubSeq(s, 1, Len(s) - 1))
    ELSE s

\* s.split(): the maximal runs of characters other than blanks; word is the
\* run being read
RECURSIVE SplitFrom(_, _)
SplitFrom(s, word) ==
    IF s = <<>> THEN (IF word = <<>> THEN <<>> ELSE <<word>>)
    ELSE IF Head(s) = " "
         THEN (IF word = <<>> THEN <<>> ELSE <<word>>) \o SplitFrom(Tail(s), <<>>)
         ELSE SplitFrom(Tail(s), Append(word, Head(s)))

Split(s) == SplitFrom(s, <<>>)


is_valid_brand(name) ==
    LET brand_name == Strip(name)
        words == Split(brand_name)
        brand_lower == Lower(brand_name)
        outdoor_sport == <<"o", "u", "t", "d", "o", "o", "r", " ", "s", "p", "o", "r", "t">>
        bad_words == {<<"s", "c", "h", "o", "o", "l">>,
                      <<"c", "o", "l", "l", "e", "g", "e">>,
                      <<"u", "n", "i", "v", "e", "r", "s", "i", "t", "y">>}
    IN  IF /\ Len(words) = 2
           /\ IsUpper(words[1][1]) /\ IsUpper(words[2][1])
           /\ \E k \in 1..2 : Lower(words[k]) \in person_names
            THEN FALSE
        ELSE IF \E keyword \in non_brand_keywords : IsSubstring(keyword, brand_lower)
            THEN FALSE
        ELSE IF \E suffix \in educational_suffixes : EndsWith(brand_name, suffix)
            THEN FALSE
        ELSE IF Len(words) = 1 /\ brand_lower \in generic_places
            THEN FALSE
        ELSE IF /\ IsSubstring(outdoor_sport, brand_lower)
                /\ ~\E bad_word \in bad_words : IsSubstring(bad_word, brand_lower)
            THEN TRUE
        ELSE IF \E known_brand \in known_brands : IsSubstring(known_brand, brand_lower)
            THEN TRUE
        ELSE TRUE

\* the words the names given to the filter are made of
BrandWords ==
  <<
    <<"N", "i", "k", "e">>,
    <<"F", "o", "r", "d">>,
    <<"S", "p", "r", "i", "n", "g", "f", "i", "e", "l", "d">>,
    <<"H", "i", "g", "h">>,
    <<"S", "c", "h", "o", "o", "l">>,
    <<"M", "i", "k", "e">>,
    <<"B", "e", "r", "k", "e", "l", "e", "y">>,
    <<"A", "c", "m", "e">>
  >>


\* the words ws joined by single blanks
RECURSIVE Join(_)
Join(ws) ==
    IF ws = <<>> THEN <<>>
    ELSE IF Len(ws) = 1 THEN ws[1]
    ELSE ws[1] \o <<" ">> \o Join(Tail(ws))

\* the names of one to MaxWords words
BrandNames ==
    {Join([k \in 1..Len(ws) |-> BrandWords[ws[k]]]) :
        ws \in SeqsUpTo(1..Len(BrandWords), MaxWords) \ {<<>>}}

InitBrand ==
    \E name \in BrandNames :
        InitCall([op |-> "is_valid_brand", brand_name |-> name])

\* the call returns
BrandReturn ==
    /\ call.op = "is_valid_brand"
    /\ ret = None
    /\ ret' = Some(is_valid_brand(call.brand_name))
    /\ UNCHANGED <<clock, statuses, detached, call>>
    /\ TableUnchanged

----------------------------------------------------------------------------
(* categorize_sponsorship_placement.  A field of a detection record is any  *)
(* JSON value: a string stands for itself, and "<absent>", "<null>",        *)
(* "<number>", "<array>" and "<object>" stand for a missing key, null, a    *)
(* number, a list and a dict.                                               *)

Absent == "<absent>"

NonStrings == {"<null>", "<number>", "<array>", "<object>"}

\* hash(x) raises TypeError for a list and for a dict
Hashable(x) == x \notin {"<array>", "<object>"}

\* dict.get(key, default) on the value stored for the key
Get(value, default) == IF value = Absent THEN default ELSE value

ad_placement_types ==
    {"digital_overlay", "ctv_ad", "overlay_ad", "squeeze_ad", "commercial"}

in_game_placement_types ==
    {"logo", "jersey_sponsor", "stadium_signage", "product_placement",
     "audio_mention"}

\* the value a call returned, or the exception it raised
Returned(x) == [raised |-> FALSE, value |-> x]

Raised(e) == [raised |-> TRUE, value |-> e]

categorize_sponsorship_placement(placement_type, context) ==
    IF ~Hashable(placement_type) THEN Raised("TypeError")
    ELSE IF placement_type \in ad_placement_types THEN Returned("ad_placement")
    ELSE IF placement_type \in in_game_placement_types
        THEN Returned("in_game_placement")
    ELSE IF context = "commercial" THEN Returned("ad_placement")
    ELSE Returned("in_game_placement")

\* the values of 'type' and of 'context' the classifier is called with
TypeValues ==
    ad_placement_types \cup in_game_placement_types
        \cup {"", "banner"} \cup NonStrings

ContextValues ==
    {"game_action", "replay", "celebration", "interview", "crowd_shot",
     "commercial", "transition", "", "unknown"} \cup NonStrings

InitCategory ==
    \E t \in TypeValues, c \in ContextValues :
        InitCall([op |-> "categorize", placement_type |-> t, context |-> c])

\* the call returns or raises
CategorizeReturn ==
    /\ call.op = "categorize"
    /\ ret = None
    /\ ret' = Some(categorize_sponsorship_placement(call.placement_type,
                                                    call.context))
    /\ UNCHANGED <<clock, statuses, detached, call>>
    /\ TableUnchanged

----------------------------------------------------------------------------
(* The detection records as the detection service returns them *)

\* the value stored for 'timeline': a list of numbers, or another JSON value
TimelineList(items) == [json |-> "<array>", items |-> items]

TimelineOther(j) == [json |-> j, items |-> <<>>]

\* a record the schema BrandAppearance accepts
GoodRecord ==
    [json |-> "<object>", brand |-> "Nike", timeline |-> TimelineList(<<10, 20>>),
     type |-> "logo", sponsorship_category |-> "in_game_placement",
     prominence |-> "primary", context |-> "game_action",
     description |-> "Logo on the jersey", sentiment_context |-> "positive",
     viewer_attention |-> "high"]

\* the records of the model: GoodRecord, a second brand, and records that
\* differ from GoodRecord in one respect
RawRecords ==
    << GoodRecord,
       [GoodRecord EXCEPT !.brand = "Ford", !.type = "commercial",
                          !.sponsorship_category = "ad_placement",
                          !.context = "commercial",
                          !.timeline = TimelineList(<<0, 30>>)],
       [GoodRecord EXCEPT !.sponsorship_category = Absent],
       [GoodRecord EXCEPT !.timeline = TimelineList(<<20, 10>>)],
       [GoodRecord EXCEPT !.timeline = TimelineOther(Absent)],
       [GoodRecord EXCEPT !.timeline = TimelineOther("<string>")],
       [GoodRecord EXCEPT !.brand = Absent],
       [GoodRecord EXCEPT !.brand = ""],
       [GoodRecord EXCEPT !.brand = "<number>"],
       [GoodRecord EXCEPT !.brand = "Springfield High School"],
       [GoodRecord EXCEPT !.description = "Logo"],
       [GoodRecord EXCEPT !.json = "<string>"] >>

\* the characters of the brand names of RawRecords
Spelling(brand) ==
    CASE brand = "Nike" -> BrandWords[1]
      [] brand = "Ford" -> BrandWords[2]
      [] brand = "Springfield High School"
            -> Join(<<BrandWords[3], BrandWords[4], BrandWords[5]>>)
      [] OTHER -> <<>>

\* len(description)
DescriptionLength(d) ==
    CASE d = "Logo on the jersey" -> 18
      [] d = "Logo" -> 4
      [] OTHER -> 0

\* what the scoring service does on each call of calculate_ai_contextual_score:
\* it answers with a score, it raises, it answers with text that is not JSON,
\* or it is not configured (OPENAI_API_KEY is empty)
ScoringOutcomes == {"scored", "error", "unparseable", "unconfigured"}

\* the contextual score of a brand the service has scored, in tenths
SCORE_TENTHS == 80

\* the lists of at most n records of RawRecords
RawLists(n) ==
    {[k \in 1..Len(ix) |-> RawRecords[ix[k]]] : ix \in SeqsUpTo(1..Len(RawRecords), n)}

----------------------------------------------------------------------------
(* analyze_video_with_progress on the records: lines 1301-1491 *)

\* brand_name = appearance.get('brand', '').strip() is not empty and is a
\* valid brand: the record is not skipped
IsKept(a) ==
    /\ Get(a.brand, "") # ""
    /\ is_valid_brand(Spelling(a.brand))

\* the body of the loop over brand_appearances raises on record a
RecordRaises(a) ==
    \/ a.json # "<object>"                 \* no attribute 'get'
    \/ a.brand \in NonStrings              \* no attribute 'strip'
    \/ /\ IsKept(a)
       /\ \/ /\ a.sponsorship_category = Absent
             /\ categorize_sponsorship_placement(Get(a.type, ""),
                                                 Get(a.context, "")).raised
          \/ a.timeline.json \in {"<null>", "<number>"}     \* len()
          \/ a.timeline.json = "<string>"                   \* str - str
          \/ ~Hashable(Get(a.context, "unknown"))           \* Counter key

\* the record after 'Ensure sponsorship_category is set'
Repaired(a) ==
    IF a.sponsorship_category = Absent
    THEN [a EXCEPT !.sponsorship_category =
             categorize_sponsorship_placement(Get(a.type, ""),
                                              Get(a.context, "")).value]
    ELSE a

\* the records appended to brand_data[...]['appearances'], in input order
KeptAppearances(raw) ==
    LET kept == SelectSeq(raw, LAMBDA a : ~RecordRaises(a) /\ IsKept(a))
    IN  [k \in 1..Len(kept) |-> Repaired(kept[k])]

\* exposure = timeline[1] - timeline[0] when len(timeline) >= 2; the default
\* timeline of a record without one is [0, 0]
ExposureOf(a) ==
    IF a.timeline.json = "<array>" /\ Len(a.timeline.items) >= 2
    THEN a.timeline.items[2] - a.timeline.items[1]
    ELSE 0

AdPlacements(apps) ==
    SelectSeq(apps, LAMBDA a : a.sponsorship_category = "ad_placement")

InGamePlacements(apps) ==
    SelectSeq(apps, LAMBDA a : a.sponsorship_category # "ad_placement")

ExposureTime(apps) == SumSeq([k \in 1..Len(apps) |-> ExposureOf(apps[k])])

\* one entry of brand_metrics, for a brand the service has scored
RecordMetric(apps, b) ==
    LET mine == AppearancesOf(apps, b)
    IN  [brand |-> b,
         total_exposure_time |-> ExposureTime(mine),
         total_appearances |-> Len(mine),
         contextual_value_score |-> SCORE_TENTHS,
         appearances |-> mine,
         ad_placements |-> AdPlacements(mine),
         in_game_placements |-> InGamePlacements(mine)]

\* the 'data' of the completing update
RecordData(v, seconds, apps) ==
    LET brands == BrandOrder(apps, <<>>)
    IN  [summary |-> [video_duration_minutes |-> RoundMinutes(seconds),
                      total_brands_detected |-> Len(brands),
                      total_brand_appearances |-> Len(apps)],
         brand_metrics |-> [k \in 1..Len(brands) |-> RecordMetric(apps, brands[k])],
         raw_detections |->
             Concat([k \in 1..Len(brands) |-> AppearancesOf(apps, brands[k])]),
         video_id |-> v]

\* the scoring of one of the first n brands raises
ScoringRaises(n, scores) == \E k \in 1..n : scores[k] # "scored"

\* a pipeline that publishes the metrics whatever the scoring service did
scoring_updates_lenient(v, seconds, apps, scores) ==
    << Processing("finalizing", 90), Completed(RecordData(v, seconds, apps)) >>

\* the pipeline fails the job when the scoring of one brand does
scoring_updates(v, seconds, apps, scores) ==
    IF ScoringRaises(Len(BrandOrder(apps, <<>>)), scores)
    THEN << Failed("AI analysis is required for brand metrics") >>
    ELSE << Processing("finalizing", 90), Completed(RecordData(v, seconds, apps)) >>

\* the updates of the job, in order, when the detection service has returned
\* the list raw and the scoring service behaves as scores says
pipeline_updates(v, seconds, raw, scores) ==
    << Processing("initialization", 0), Processing("brand_detection", 25),
       Processing("brand_analysis", 30), Processing("brand_analysis", 35),
       Processing("brand_analysis", 50), Processing("processing", 60) >>
    \o IF \E k \in 1..Len(raw) : RecordRaises(raw[k])
       THEN << Failed("detection record") >>
       ELSE << Processing("metrics", 75) >>
            \o scoring_updates(v, seconds, KeptAppearances(raw), scores)

\* the job of the single-video request on video "a", whose detection call
\* returned call.raw: start_analysis creates it and the pipeline runs to its
\* end, no other thread touching the table
PipelineOnRecords ==
    /\ call.op = "records"
    /\ pc[0] = "idle"
    /\ LET job_id == SingleJobId("a", clock)
       IN  /\ jid' = [jid EXCEPT ![0] = job_id]
           /\ TableStep(UpdateAll(
                  create_job(statuses, job_id, clock,
                             FreshOid(statuses, detached, job_id)),
                  job_id,
                  pipeline_updates("a", PipelineDuration("a"),
                                   call.raw, call.scores)))
    /\ rvid' = [rvid EXCEPT ![0] = "a"]
    /\ pc' = [pc EXCEPT ![0] = "finished"]
    /\ UNCHANGED <<clock, video_ids, temp_status, result, mpc, mjid,
                   completed_videos, individual_analyses,
                   poll_pc, poll_ref, poll_resp, call, ret>>

----------------------------------------------------------------------------
(* analyze_video, the synchronous endpoint, on the records.  The answer of  *)
(* the detection service is taken to be the JSON array alone, so that       *)
(* json.loads succeeds and each record is validated.  "<string>" stands for *)
(* a string of more than two characters.                                    *)

PlacementTypes == ad_placement_types \cup in_game_placement_types

\* BrandAppearance(**a) returns: every field passes its constraint
Validates(a) ==
    /\ a.json = "<object>"
    /\ a.timeline.json = "<array>"
    /\ Len(a.timeline.items) = 2
    /\ a.timeline.items[2] > a.timeline.items[1]
    /\ a.brand \notin NonStrings \cup {Absent, ""}
    /\ a.type \in PlacementTypes
    /\ a.sponsorship_category \in {"ad_placement", "in_game_placement"}
    /\ a.prominence \in {"primary", "secondary", "background"}
    /\ a.context \in {"game_action", "replay", "celebration", "interview",
                      "crowd_shot", "commercial", "transition"}
    /\ a.description \notin NonStrings \cup {Absent}
    /\ DescriptionLength(a.description) >= 10
    /\ a.sentiment_context \in {"positive", "neutral", "negative"}
    /\ a.viewer_attention \in {"high", "medium", "low"}

\* 'brand' in appearance and 'timeline' in appearance, for a record that did
\* not validate: the keys of a dict, the substrings of a string
HasBrandAndTimeline(a) ==
    /\ a.json = "<object>"
    /\ a.brand # Absent
    /\ a.timeline.json # Absent

\* the test 'brand' in appearance raises: the value is not iterable
SalvageRaises(a) == ~Validates(a) /\ a.json \in {"<null>", "<number>"}

\* brand_data after the validation loop: the validated and the salvaged
sync_brand_data(raw) ==
    SelectSeq(raw, LAMBDA a : Validates(a) \/ HasBrandAndTimeline(a))

\* what the validation loop does with each record of raw, which it takes as
\* the detection service returned it
validation_outcomes(raw) ==
    [k \in 1..Len(raw) |->
        IF Validates(raw[k]) THEN "validated"
        ELSE IF HasBrandAndTimeline(raw[k]) THEN "salvaged"
        ELSE "skipped"]

\* the body of the loop over brand_data raises on record a
SyncRecordRaises(a) ==
    \/ ~Hashable(a.brand)
    \/ /\ a.sponsorship_category = Absent
       /\ categorize_sponsorship_placement(Get(a.type, ""),
                                           Get(a.context, "")).raised
    \/ a.timeline.json \in {"<null>", "<number>"}            \* len()
    \/ ~Hashable(Get(a.prominence, "secondary"))

HttpError(e) == [code |-> 500, body |-> [error |-> e]]

\* what the endpoint answers.  When nothing has raised before, the loop
\* 'for brand_name, data in brand_data.items()' runs on brand_data, a list
sync_response(raw, scores) ==
    LET brand_data == sync_brand_data(raw)
    IN  IF \E k \in 1..Len(raw) : SalvageRaises(raw[k])
            THEN HttpError("argument of type is not iterable")
        ELSE IF \E k \in 1..Len(brand_data) : SyncRecordRaises(brand_data[k])
            THEN HttpError("TypeError")
        ELSE IF ScoringRaises(Len(BrandOrder(brand_data, <<>>)), scores)
            THEN HttpError("AI analysis is required")
        ELSE HttpError("'list' object has no attribute 'items'")

\* GET /api/analyze/a is answered
AnalyzeVideo ==
    /\ call.op = "records"
    /\ ret = None
    /\ ret' = Some(sync_response(call.raw, call.scores))
    /\ UNCHANGED <<clock, statuses, detached, call>>
    /\ TableUnchanged

\* the detection service returns any list of at most MaxRecords records and
\* the scoring service answers the k-th call of a request as scores[k]
InitRecords ==
    \E raw \in RawLists(MaxRecords), scores \in [1..MaxRecords -> ScoringOutcomes] :
        InitCall([op |-> "records", raw |-> raw, scores |-> scores])

----------------------------------------------------------------------------
(* Brand metrics in full.  Here a time is an integer number of             *)
(* milliseconds, a score or a weight a number of hundredths, a percentage  *)
(* that the code rounds to one decimal a number of tenths, and a quotient  *)
(* the code does not round is kept exact, as numerator and denominator.    *)

\* round(n / d) to the nearest integer, a tie to the even one (d > 0)
RoundHalfEven(n, d) ==
    LET q == n \div d
        r == n % d
    IN  IF 2 * r < d THEN q
        ELSE IF 2 * r > d THEN q + 1
        ELSE IF q % 2 = 0 THEN q ELSE q + 1

\* round(x, 2) of a time: to the hundredth of a second
Round2(ms) == 10 * RoundHalfEven(ms, 10)

\* the quotient n / d
Ratio(n, d) == [num |-> n, den |-> d]

\* the appearances of the model, as the record loop keeps them
Appearance(b, tl, cat, ctx, prom, att, sent) ==
    [brand |-> b, timeline |-> tl, sponsorship_category |-> cat,
     context |-> ctx, prominence |-> prom, viewer_attention |-> att,
     sentiment_context |-> sent]

\* the records the detection service returns for each video, all of them
\* accepted by the schema BrandAppearance
AppearancesIn ==
    [v \in Videos |->
        CASE v = "a" -> << Appearance("Nike", <<0, 1006>>, "ad_placement",
                               "commercial", "primary", "high", "negative"),
                           Appearance("Nike", <<5000, 6006>>, "in_game_placement",
                               "game_action", "background", "low", "negative") >>
          [] v = "b" -> << Appearance("nike", <<10000, 20000>>, "in_game_placement",
                               "replay", "secondary", "medium", "neutral") >>
          [] v = "c" -> << Appearance("Ford", <<0, 30000>>, "in_game_placement",
                               "celebration", "primary", "high", "positive"),
                           Appearance("Nike", <<40000, 45000>>, "in_game_placement",
                               "game_action", "secondary", "low", "negative") >>
          [] v = "d" -> << >>
          [] OTHER   -> << Appearance("Nike", <<1000, 2000>>, "ad_placement",
                               "interview", "background", "medium", "positive") >>]

\* exposure = timeline[1] - timeline[0]
ExposureMs(apps) ==
    SumSeq([k \in 1..Len(apps) |-> apps[k].timeline[2] - apps[k].timeline[1]])

\* the appearances counted as high impact moments
IsHighImpact(a) ==
    \/ a.context \in {"celebration", "interview", "commercial"}
    \/ a.prominence = "primary"
    \/ a.viewer_attention = "high"

\* the weights of the metrics loop of analyze_video_with_progress
prominence_score(a) ==
    CASE a.prominence = "primary"   -> 100
      [] a.prominence = "secondary" -> 60
      [] OTHER                      -> 30

attention_score(a) ==
    CASE a.viewer_attention = "high"   -> 100
      [] a.viewer_attention = "medium" -> 60
      [] OTHER                         -> 30

\* round(np.mean(scores), 2), and 0.5 for no score
MeanHundredths(scores) ==
    IF scores = <<>> THEN 50 ELSE RoundHalfEven(SumSeq(scores), Len(scores))

\* avg_sentiment = 0.8
AVG_SENTIMENT == 80

\* the contexts in the order the loop first meets them
RECURSIVE ContextOrder(_, _)
ContextOrder(apps, seen) ==
    IF apps = <<>> THEN seen
    ELSE ContextOrder(Tail(apps),
                      IF \E k \in 1..Len(seen) : seen[k] = Head(apps).context
                      THEN seen ELSE Append(seen, Head(apps).context))

\* context_bonuses of estimate_social_engagement
context_bonus(a) ==
    CASE a.context = "celebration" -> 2000
      [] a.context = "game_action" -> 1500
      [] a.context = "replay"      -> 1000
      [] a.context = "interview"   -> 750
      [] OTHER                     -> 0

\* ai_boosted_engagement for the answer of the scoring service: an
\* effectiveness of 80, no ROI rating and no audience reach (5.0 each)
BOOSTED_ENGAGEMENT == 650

estimate_social_engagement(apps) ==
    IF apps = <<>> THEN 0
    ELSE BOOSTED_ENGAGEMENT + SumSeq([k \in 1..Len(apps) |-> context_bonus(apps[k])])

\* round(category time / total time * 100, 1), and 0 when no time is counted
percentage_of_total(time, total) ==
    IF total > 0 THEN RoundHalfEven(time * 1000, total) ELSE 0

breakdown(placements, total) ==
    [count |-> Len(placements),
     exposure_time |-> Round2(ExposureMs(placements)),
     percentage_of_total |-> percentage_of_total(ExposureMs(placements), total)]

\* one entry of brand_metrics as analyze_video_with_progress appends it
brand_metric(apps, b) ==
    LET mine == AppearancesOf(apps, b)
    IN  [brand |-> b,
         total_exposure_time |-> Round2(ExposureMs(mine)),
         total_appearances |-> Len(mine),
         contextual_value_score |-> SCORE_TENTHS,
         high_impact_moments |-> Len(SelectSeq(mine, IsHighImpact)),
         sentiment_score |-> AVG_SENTIMENT,
         sentiment_label |-> IF AVG_SENTIMENT > 60 THEN "positive" ELSE "neutral",
         avg_prominence |->
             MeanHundredths([k \in 1..Len(mine) |-> prominence_score(mine[k])]),
         avg_viewer_attention |->
             MeanHundredths([k \in 1..Len(mine) |-> attention_score(mine[k])]),
         contexts |-> ContextOrder(mine, <<>>),
         estimated_social_mentions |-> estimate_social_engagement(mine),
         appearances |-> mine,
         sponsorship_breakdown |->
             [ad_placements |-> breakdown(AdPlacements(mine), ExposureMs(mine)),
              in_game_placements |->
                  breakdown(InGamePlacements(mine), ExposureMs(mine))],
         ad_placements |-> AdPlacements(mine),
         in_game_placements |-> InGamePlacements(mine)]

\* the 'data' of a completed single-video job on video v
video_analysis(v) ==
    LET apps == AppearancesIn[v]
        brands == BrandOrder(apps, <<>>)
    IN  [summary |-> [video_duration_minutes |-> RoundMinutes(PipelineDuration(v)),
                      total_brands_detected |-> Len(brands),
                      total_brand_appearances |-> Len(apps)],
         brand_metrics |-> [k \in 1..Len(brands) |-> brand_metric(apps, brands[k])],
         raw_detections |->
             Concat([k \in 1..Len(brands) |-> AppearancesOf(apps, brands[k])]),
         video_id |-> v]

\* an analysis whose brand_metrics satisfy the schema BrandMetrics
\* (total_appearances >= 0) with a brand that has no appearance; the pipeline
\* itself lists a brand only with an appearance
StoredAnalysis ==
    [summary |-> [video_duration_minutes |-> RoundMinutes(PipelineDuration("d")),
                  total_brands_detected |-> 1,
                  total_brand_appearances |-> 0],
     brand_metrics |->
         << [brand |-> "Nike", total_exposure_time |-> 0, total_appearances |-> 0,
             contextual_value_score |-> 50, high_impact_moments |-> 0,
             sentiment_score |-> 0 - 50, sentiment_label |-> "negative",
             avg_prominence |-> 50, avg_viewer_attention |-> 50,
             contexts |-> <<>>, estimated_social_mentions |-> 0,
             appearances |-> <<>>,
             sponsorship_breakdown |->
                 [ad_placements |-> breakdown(<<>>, 0),
                  in_game_placements |-> breakdown(<<>>, 0)],
             ad_placements |-> <<>>, in_game_placements |-> <<>>] >>,
     raw_detections |-> <<>>,
     video_id |-> "d"]

----------------------------------------------------------------------------
(* combine_video_analyses in full *)

\* an offset applied to the record itself instead of to a copy of it
offset_copy_in_place(app, offset) ==
    [copy |-> OffsetAppearance(app, offset),
     original |-> OffsetAppearance(app, offset)]

\* offset_x = x.copy(); offset_x['timeline'] = [...]: the new record, and the
\* record it was copied from as the statement leaves it
offset_copy(app, offset) ==
    [copy |-> OffsetAppearance(app, offset), original |-> app]

CopiesOf(apps, offset) ==
    [k \in 1..Len(apps) |-> offset_copy(apps[k], offset).copy]

OriginalsAfter(apps, offset) ==
    [k \in 1..Len(apps) |-> offset_copy(apps[k], offset).original]

\* cumulative_duration_seconds at position k, in milliseconds
OffsetMs(present, k) == 1000 * CumulativeOffset(present, k)

\* a combined entry that holds only what the last video with the brand adds
contributions_last(present, b) ==
    [k \in 1..Len(present) |->
        IF \E j \in (k + 1)..Len(present) : MetricsFor(present[j], b) # <<>>
        THEN <<>> ELSE MetricsFor(present[k], b)]

\* what each video adds to combined_brand_metrics[b]
contributions(present, b) ==
    [k \in 1..Len(present) |-> MetricsFor(present[k], b)]

\* sum(scores) / len(scores) if scores else 0
Mean(scores) ==
    IF scores = <<>> THEN Ratio(0, 1) ELSE Ratio(SumSeq(scores), Len(scores))

\* x > 0.1 and x < -0.1 of a quotient of hundredths
sentiment_label(x) ==
    IF 10 * x.num > x.den THEN "positive"
    ELSE IF 10 * x.num < 0 - x.den THEN "negative"
    ELSE "neutral"

\* (category time / total time) * 100, left at 0 when no time is counted
merged_percentage(time, total) ==
    IF total > 0 THEN Ratio(time * 100, total) ELSE Ratio(0, 1)

\* one entry of combined_brand_list
FullCombinedMetric(present, b) ==
    LET per == contributions(present, b)
        all == Concat(per)
        Sum(F(_)) == SumSeq([k \in 1..Len(all) |-> F(all[k])])
        Lists(F(_)) ==
            Concat([k \in 1..Len(present) |->
                Concat([j \in 1..Len(per[k]) |->
                    CopiesOf(F(per[k][j]), OffsetMs(present, k))])])
        exposure == Sum(LAMBDA m : m.total_exposure_time)
        appearances == Sum(LAMBDA m : m.total_appearances)
        ad_time == Sum(LAMBDA m : m.sponsorship_breakdown.ad_placements.exposure_time)
        in_game_time ==
            Sum(LAMBDA m : m.sponsorship_breakdown.in_game_placements.exposure_time)
        \* the metrics of the brand that the averaging loop finds
        found == Concat([k \in 1..Len(present) |-> MetricsFor(present[k], b)])
        Avg(F(_)) ==
            IF appearances > 0
            THEN Mean([k \in 1..Len(found) |-> F(found[k])])
            ELSE Ratio(0, 1)
    IN  [brand |-> b,
         total_exposure_time |-> exposure,
         total_appearances |-> appearances,
         contextual_value_score |-> Avg(LAMBDA m : m.contextual_value_score),
         high_impact_moments |-> Sum(LAMBDA m : m.high_impact_moments),
         sentiment_score |-> Avg(LAMBDA m : m.sentiment_score),
         sentiment_label |->
             IF appearances > 0
             THEN sentiment_label(Avg(LAMBDA m : m.sentiment_score))
             ELSE Absent,
         avg_prominence |-> Avg(LAMBDA m : m.avg_prominence),
         avg_viewer_attention |-> Avg(LAMBDA m : m.avg_viewer_attention),
         contexts |->
             UNION {{all[k].contexts[j] : j \in 1..Len(all[k].contexts)} :
                    k \in 1..Len(all)},
         estimated_social_mentions |-> Sum(LAMBDA m : m.estimated_social_mentions),
         appearances |-> Lists(LAMBDA m : m.appearances),
         sponsorship_breakdown |->
             [ad_placements |->
                  [count |-> Sum(LAMBDA m : m.sponsorship_breakdown.ad_placements.count),
                   exposure_time |-> ad_time,
                   percentage_of_total |-> merged_percentage(ad_time, exposure)],
              in_game_placements |->
                  [count |->
                       Sum(LAMBDA m : m.sponsorship_breakdown.in_game_placements.count),
                   exposure_time |-> in_game_time,
                   percentage_of_total |-> merged_percentage(in_game_time, exposure)]],
         ad_placements |-> Lists(LAMBDA m : m.ad_placements),
         in_game_placements |-> Lists(LAMBDA m : m.in_game_placements)]

\* the brand names in the order of combined_brand_metrics (a dict)
CombinedNames(present) ==
    BrandOrder(Concat([k \in 1..Len(present) |-> present[k].brand_metrics]), <<>>)

FullCombinedResult(individual, vids) ==
    LET present == PresentAnalyses(individual)
        names == CombinedNames(present)
        brand_list == SortByExposure(
            [k \in 1..Len(names) |-> FullCombinedMetric(present, names[k])])
    IN  [combined_summary |->
             [total_videos |-> Len(vids),
              combined_duration_minutes |->
                  SumSeq([k \in 1..Len(present) |->
                      present[k].summary.video_duration_minutes]),
              total_brands_detected |-> Len(brand_list),
              total_brand_appearances |->
                  SumSeq([k \in 1..Len(present) |->
                      present[k].summary.total_brand_appearances]),
              top_performing_brand |->
                  IF brand_list = <<>> THEN None ELSE Some(brand_list[1].brand),
              videos_analyzed |-> VideosAnalyzed(present)],
         combined_brand_metrics |-> brand_list,
         raw_detections |->
             Concat([k \in 1..Len(present) |->
                 CopiesOf(present[k].raw_detections, OffsetMs(present, k))]),
         individual_analyses |-> individual,
         video_ids |-> vids]

\* the analysis at position k of the argument once the merge has returned
AnalysisAfter(present, k) ==
    LET x == present[k]
        off == OffsetMs(present, k)
    IN  [x EXCEPT
            !.raw_detections = OriginalsAfter(@, off),
            !.brand_metrics =
                [j \in 1..Len(@) |->
                    [@[j] EXCEPT !.appearances = OriginalsAfter(@, off),
                                 !.ad_placements = OriginalsAfter(@, off),
                                 !.in_game_placements = OriginalsAfter(@, off)]]]

\* individual_analyses once the merge has returned
InputsAfter(individual) ==
    LET present == PresentAnalyses(individual)
    IN  [k \in 1..Len(present) |-> Some(AnalysisAfter(present, k))]

\* the call of combine_video_analyses: what it returns or raises, and its
\* first argument after the call
combine_in_full(individual, vids) ==
    IF individual = <<>>
    THEN [outcome |-> Raised("No successful analyses to combine"),
          inputs |-> individual]
    ELSE [outcome |-> Returned(FullCombinedResult(individual, vids)),
          inputs |-> InputsAfter(individual)]

\* the analyses the merge is given
MergeInputs == {video_analysis(v) : v \in Videos} \cup {StoredAnalysis}

\* either the merge is called on a list of analyses, or the metrics of one
\* video are computed
InitMerge ==
    \/ \E xs \in SeqsUpTo(MergeInputs, MaxMerge) :
          InitCall([op |-> "merge",
                    individual |-> [k \in 1..Len(xs) |-> Some(xs[k])],
                    video_ids |-> [k \in 1..Len(xs) |-> xs[k].video_id]])
    \/ \E v \in Videos : InitCall([op |-> "metrics", video_id |-> v])

\* the metrics loop of analyze_video_with_progress has run on the records of
\* the video, every brand scored
MetricsReturn ==
    /\ call.op = "metrics"
    /\ ret = None
    /\ ret' = Some(video_analysis(call.video_id))
    /\ UNCHANGED <<clock, statuses, detached, call>>
    /\ TableUnchanged

CombineReturn ==
    /\ call.op = "merge"
    /\ ret = None
    /\ ret' = Some(combine_in_full(call.individual, call.video_ids))
    /\ UNCHANGED <<clock, statuses, detached, call>>
    /\ TableUnchanged

----------------------------------------------------------------------------
(* Specifications *)

\* the multi-video request: the orchestrator and its units
NextMulti ==
    \/ StartMulti
    \/ MultiBegin
    \/ \E u \in Units : UnitCreate(u)
    \/ \E r \in Runners : PipelineBegin(r)
    \/ \E r \in Runners : DetectReturn(r)
    \/ \E r \in Runners : DetectRaise(r)
    \/ \E r \in Runners : ScoreReturn(r)
    \/ \E r \in Runners : ScoreRaise(r)
    \/ \E u \in Units : UnitPoll(u)
    \/ \E u \in Units : UnitRead(u)
    \/ \E u \in Units : MultiCollect(u)
    \/ MultiFinalizing
    \/ MultiCombine

\* a client polling the status endpoint
NextPoll ==
    \/ PollNotFound
    \/ PollGet
    \/ PollRespond

\* the single-video request
NextSingle ==
    \/ StartSingle
    \/ PipelineBegin(0)
    \/ DetectReturn(0)
    \/ DetectRaise(0)
    \/ ScoreReturn(0)
    \/ ScoreRaise(0)

\* every thread of the program
Next == NextMulti \/ NextSingle \/ NextPoll

\* a multi-video request: the orchestrator, its units and their pipelines
Spec == Init /\ [][NextMulti]_vars

\* a multi-video request and a client polling the status endpoint
SpecStatus == Init /\ [][NextMulti \/ NextPoll]_vars

\* a multi-video request of three videos
SpecProgress == InitProgress /\ [][NextMulti]_vars

\* a multi-video request of more videos than the pool has workers
SpecPool == InitPool /\ [][NextMulti]_vars

\* a single-video request and a client polling the status endpoint
SpecSingle == Init /\ [][NextSingle \/ NextPoll]_vars

\* the job tracker under any sequence of calls, and the status endpoint
NextTable ==
    \/ TableCreate
    \/ TableUpdate
    \/ TableGet
    \/ TableCleanup
    \/ NextPoll

SpecTable == InitTable /\ [][NextTable]_vars

\* categorize_sponsorship_placement called on each type and context
SpecCategory == InitCategory /\ [][CategorizeReturn]_vars

\* the two single-video paths on each list of records
NextRecords ==
    \/ PipelineOnRecords
    \/ AnalyzeVideo

SpecRecords == InitRecords /\ [][NextRecords]_vars

\* combine_video_analyses called on each list of analyses, and the metrics
\* of each video computed
NextMerge ==
    \/ CombineReturn
    \/ MetricsReturn

SpecMerge == InitMerge /\ [][NextMerge]_vars

\* is_valid_brand called on each name of BrandNames
SpecBrand == InitBrand /\ [][BrandReturn]_vars

\* a multi-video request that names one video twice and a single-video
\* request, the threads of both scheduled again and again; every call to
\* the detection and the scoring service returns or raises
SpecTermination ==
    /\ InitRepeat
    /\ [][NextMulti \/ NextSingle]_vars
    /\ WF_vars(NextMulti)
    /\ WF_vars(NextSingle)

\* the multi-video request with every thread of it scheduled again and
\* again: the request thread, the orchestrator thread and the workers of
\* the pool are operating-system threads.  No thread, timer or request
\* handler of the service calls cleanup_old_jobs, so no step of it occurs.
SpecService == InitService /\ [][NextMulti]_vars /\ WF_vars(NextMulti)

----------------------------------------------------------------------------
(* Properties *)

MultiJob == statuses[mjid]

\* the analyses the merge did not skip
MergedAnalyses == PresentAnalyses(individual_analyses)

SuccessfulUnits == {u \in Units : result[u].success}

FailedUnits == {u \in Units : ~result[u].success}

RECURSIVE IsSubsequence(_, _)
IsSubsequence(s, t) ==
    IF s = <<>> THEN TRUE
    ELSE IF t = <<>> THEN FALSE
    ELSE IF Head(s) = Head(t) THEN IsSubsequence(Tail(s), Tail(t))
    ELSE IsSubsequence(s, Tail(t))

StatusMoves ==
    { <<"pending", "processing">>, <<"processing", "completed">>,
      <<"processing", "failed">> }

\* C1: in every step, the status of every job of the table either stays as
\* it is or moves pending -> processing or processing -> completed | failed;
\* it never goes back and never leaves completed or failed.
C1_StatusNeverRegresses ==
    [][\A id \in DOMAIN statuses \cap DOMAIN statuses' :
          \/ statuses'[id].status = statuses[id].status
          \/ <<statuses[id].status, statuses'[id].status>> \in StatusMoves]_vars

\* C2: in every state, a job holds a result only when it is completed and an
\* error only when it is failed (so never both).
C2_ResultErrorExclusive ==
    \A id \in DOMAIN statuses :
        /\ statuses[id].data # None => statuses[id].status = "completed"
        /\ statuses[id].error # None => statuses[id].status = "failed"

\* C3: the progress of every job is in 0..100 and no step lowers it, be it
\* an update of a pipeline or of the orchestrator or a create on the same id.
C3_ProgressMonotonic ==
    [][\A id \in DOMAIN statuses \cap DOMAIN statuses' :
          /\ statuses'[id].progress \in 0..100
          /\ statuses'[id].progress >= statuses[id].progress]_vars

\* C4: when the merge is called, the analyses handed to it are in the order
\* in which their videos were requested, whatever the order of completion.
C4_MergeInRequestOrder ==
    mpc \in {"combining", "done"} =>
        IsSubsequence([k \in 1..Len(MergedAnalyses) |-> MergedAnalyses[k].video_id],
                      video_ids)

\* C5: when a multi-video job has ended with at least one unit returning
\* success and at least one returning failure, every unit has run to its
\* return, the merge received exactly the data of the successful units, the
\* job is completed, and videos_analyzed lists the videos of the merged
\* analyses and no video whose units all failed.
C5_PartialSuccessCompletes ==
    (mpc = "done" /\ SuccessfulUnits # {} /\ FailedUnits # {}) =>
        /\ \A u \in Units : pc[u] = "collected"
        /\ MultiJob.status = "completed"
        /\ MultiJob.error = None
        /\ MultiJob.data # None
        /\ MultiJob.data[1].individual_analyses = individual_analyses
        /\ Len(individual_analyses) = Cardinality(SuccessfulUnits)
        /\ \E f \in [1..Len(individual_analyses) -> SuccessfulUnits] :
              /\ \A j, k \in DOMAIN f : f[j] = f[k] => j = k
              /\ \A k \in DOMAIN f : individual_analyses[k] = result[f[k]].data
        /\ LET analyzed == MultiJob.data[1].combined_summary.videos_analyzed
           IN  /\ Len(analyzed) = Cardinality(SuccessfulUnits)
               /\ \A k \in 1..Len(analyzed) :
                     analyzed[k].video_id = individual_analyses[k][1].video_id
               /\ \A u \in FailedUnits :
                     (\A w \in Units : rvid[w] = rvid[u] => w \in FailedUnits)
                     => \A k \in 1..Len(analyzed) : analyzed[k].video_id # rvid[u]

\* a job of two different videos has ended, one unit failed, one succeeded
C5_Witness ==
    /\ mpc = "done"
    /\ \E u, w \in Units :
          /\ rvid[u] # rvid[w]
          /\ result[u].success
          /\ ~result[w].success
    /\ MultiJob.status = "completed"

\* C6: the merge of no analyses is an error; a multi-video job whose units
\* all failed ends failed, with an error and without a result, and no
\* multi-video job is completed on an empty list of analyses.
C6_AllFailedFailsJob ==
    /\ ~combine_video_analyses(<<>>, video_ids).ok
    /\ (mpc = "done" /\ SuccessfulUnits = {}) =>
          /\ MultiJob.status = "failed"
          /\ MultiJob.error # None
          /\ MultiJob.data = None
    /\ (mpc = "done" /\ MultiJob.status = "completed") =>
          individual_analyses # <<>>

\* a job of two units has ended and both units failed
C6_Witness ==
    /\ mpc = "done"
    /\ Len(video_ids) >= 2
    /\ SuccessfulUnits = {}
    /\ MultiJob.status = "failed"

\* the offset of position k when every video counts for its own duration
TrueOffset(present, k) ==
    SumSeq([j \in 1..(k - 1) |-> PipelineDuration(present[j].video_id)])

\* C7: in the result of a merge, the k-th merged video starts at the sum of
\* the durations in seconds of the videos before it, and each of its
\* detections has both ends of its timeline moved by that sum.
C7_OffsetsAreDurations ==
    (mpc = "done" /\ MultiJob.status = "completed") =>
        LET merged == MultiJob.data[1]
            present == MergedAnalyses
        IN  /\ \A k \in 1..Len(present) :
                  merged.combined_summary.videos_analyzed[k].start_time_seconds
                      = TrueOffset(present, k)
            /\ merged.raw_detections =
                  Concat([k \in 1..Len(present) |->
                      OffsetAll(present[k].raw_detections, TrueOffset(present, k))])

\* C8: at most min(4, number of requested videos) units run at the same time.
C8_BoundedConcurrency ==
    Cardinality(RunningUnits) <= Min(4, Len(video_ids))

\* four units run while a fifth waits for a worker
C8_Witness ==
    /\ Cardinality(RunningUnits) = 4
    /\ \E u \in Units : pc[u] = "queued"

\* C9: the value a status request got from get_job stays as it was when it
\* was returned, for as long as the request holds it.
C9_GetReturnsSnapshot ==
    [][(poll_ref # NoRef /\ poll_ref' = poll_ref) =>
          Deref(statuses', detached', poll_ref) = Deref(statuses, detached, poll_ref)]_vars

\* the step is a create_job of job id
IsCreateOf(id) ==
    \/ mpc = "idle" /\ mpc' = "started" /\ mjid' = id
    \/ \E r \in Runners :
          pc[r] \in {"idle", "queued"} /\ pc'[r] = "created" /\ jid'[r] = id

\* C10: a create of id leaves a job for id that is pending, with progress 0
\* and neither result nor error, whether or not id had a job before, and
\* leaves every other job as it was.
C10_CreateOverwrites ==
    [][\A id \in {mjid'} \cup {jid'[r] : r \in Runners} :
          IsCreateOf(id) =>
              /\ DOMAIN statuses' = DOMAIN statuses \cup {id}
              /\ statuses'[id].status = "pending"
              /\ statuses'[id].progress = 0
              /\ statuses'[id].data = None
              /\ statuses'[id].error = None
              /\ \A j \in DOMAIN statuses \ {id} : statuses'[j] = statuses[j]]_vars

\* a unit has created its temporary job over the completed job of another
\* unit, which still holds the dict it read
C10_Witness ==
    \E u, w \in Units :
        /\ u # w
        /\ jid[u] = jid[w]
        /\ pc[u] = "created"
        /\ pc[w] = "got_completed"
        /\ Deref(statuses, detached, temp_status[w]).status = "completed"
        /\ statuses[jid[u]].status = "pending"

\* C11: an update of an id that is not in the table leaves the table as it
\* is, a get of such an id returns None and leaves the table as it is, and
\* the status endpoint answers 404 for it, 200 only for an id of the table,
\* without changing the table.
C11_UnknownIdIsNoOp ==
    [][/\ (call'.op \in {"update", "get"} /\ call'.job_id \notin DOMAIN statuses)
           => /\ statuses' = statuses
              /\ call'.op = "get" => ret' = None
       /\ (poll_resp' # poll_resp /\ poll_resp' = 404)
           => /\ statuses' = statuses
              /\ \E id \in ClientIds : id \notin DOMAIN statuses
       /\ (poll_pc = "idle" /\ poll_pc' = "got")
           => /\ poll_ref' \in OidsOf(statuses)
              /\ statuses' = statuses
       /\ (poll_resp' # poll_resp /\ poll_resp' = 200) => poll_pc = "got"]_vars

\* an update named a job that is not in the table, which holds another job
C11_Witness ==
    /\ call.op = "update"
    /\ ~call.known
    /\ call.job_id \notin DOMAIN statuses
    /\ statuses # <<>>

\* C12: a purge at time now for a number of hours removes every job created
\* before now - hours and no other job, and leaves the jobs it keeps as
\* they were, whatever their status.
C12_PurgeRemovesExactlyOld ==
    [][call'.op = "cleanup" =>
          LET cutoff == call'.now - call'.hours * HOUR_MS
          IN  /\ DOMAIN statuses' \subseteq DOMAIN statuses
              /\ \A id \in DOMAIN statuses :
                    IF fromisoformat(statuses[id].created_at) < cutoff
                    THEN id \notin DOMAIN statuses'
                    ELSE /\ id \in DOMAIN statuses'
                         /\ statuses'[id] = statuses[id]]_vars

\* a purge has removed one job and kept a failed job created at the cutoff
C12_Witness ==
    /\ call.op = "cleanup"
    /\ call.removed = 1
    /\ \E id \in DOMAIN statuses :
          /\ fromisoformat(statuses[id].created_at) = call.now - call.hours * HOUR_MS
          /\ statuses[id].status = "failed"

\* C13: once the multi-video request has ended, its job and the temporary
\* jobs of its units are eventually removed from the table.
C13_JobsEventuallyPurged ==
    (mpc = "done") ~>
        (/\ mjid \notin DOMAIN statuses
         /\ \A u \in Units : jid[u] \notin DOMAIN statuses)

\* a known brand of the whitelist is part of the name, whatever the case
ContainsKnownBrand(name) ==
    \E known_brand \in known_brands : IsSubstring(known_brand, Lower(Strip(name)))

\* C19: is_valid_brand accepts every name that contains a known brand, also
\* when a block rule matches the name; it rejects "Springfield High School"
\* and accepts "Nike" and "Ford".
C19_AllowListWins ==
    (call.op = "is_valid_brand" /\ ret # None) =>
        /\ ContainsKnownBrand(call.brand_name) => ret = Some(TRUE)
        /\ call.brand_name = Join(<<BrandWords[3], BrandWords[4], BrandWords[5]>>)
               => ret = Some(FALSE)
        /\ call.brand_name \in {BrandWords[1], BrandWords[2]} => ret = Some(TRUE)

\* C20: categorize_sponsorship_placement returns for every type and context:
\* ad_placement for the five ad types, in_game_placement for the five
\* in-game types, and for any other type ad_placement when the context is
\* commercial and in_game_placement otherwise.
C20_CategorizeIsTotal ==
    (call.op = "categorize" /\ ret # None) =>
        /\ ~ret[1].raised
        /\ ret[1].value =
              IF call.placement_type \in {"digital_overlay", "ctv_ad", "overlay_ad",
                                          "squeeze_ad", "commercial"}
                  THEN "ad_placement"
              ELSE IF call.placement_type \in {"logo", "jersey_sponsor",
                          "stadium_signage", "product_placement", "audio_mention"}
                  THEN "in_game_placement"
              ELSE IF call.context = "commercial" THEN "ad_placement"
              ELSE "in_game_placement"

\* the pipeline has run to its end on the records of call
PipelineDone == call.op = "records" /\ pc[0] = "finished"

\* the job of that pipeline
RecordsJob == statuses[jid[0]]

\* the brands the pipeline asks the scoring service about
ScoredBrands == BrandOrder(KeptAppearances(call.raw), <<>>)

\* every appearance the result of the job holds, in any of its lists
PublishedAppearances(data) ==
    data.raw_detections
    \o Concat([k \in 1..Len(data.brand_metrics) |->
            data.brand_metrics[k].appearances
            \o data.brand_metrics[k].ad_placements
            \o data.brand_metrics[k].in_game_placements])

C15_BadRecordsDoNotFailJob ==
    (PipelineDone /\ \A k \in DOMAIN call.scores : call.scores[k] = "scored")
    => RecordsJob.status # "failed"

\* C16: when the scoring service scores every brand, the synchronous
\* endpoint answers 200 with summary, brand_metrics, raw_detections,
\* video_id and analysis_timestamp.
C16_SyncReturnsReport ==
    (/\ call.op = "records"
     /\ ret # None
     /\ \A k \in DOMAIN call.scores : call.scores[k] = "scored")
    => /\ ret[1].code = 200
       /\ DOMAIN ret[1].body = {"summary", "brand_metrics", "raw_detections",
                                "video_id", "analysis_timestamp"}

\* the published appearance says that its record did not pass validation:
\* it carries a key that a validated record does not
FlaggedDegraded(x) == DOMAIN x \ DOMAIN GoodRecord # {}

\* C17: in the result of a completed job, every record that does not
\* validate but holds brand and timeline is present and flagged as
\* degraded, and no record that does not validate and lacks brand or
\* timeline is present.
C17_SalvagedAreFlagged ==
    (PipelineDone /\ RecordsJob.status = "completed") =>
        LET published == RecordsJob.data[1].raw_detections
        IN  \A k \in 1..Len(call.raw) :
                LET a == call.raw[k]
                IN  ~Validates(a) =>
                        IF HasBrandAndTimeline(a)
                        THEN \E j \in 1..Len(published) :
                                /\ published[j] = Repaired(a)
                                /\ FlaggedDegraded(published[j])
                        ELSE \A j \in 1..Len(published) : published[j] # Repaired(a)

\* C18: every appearance in the result of a completed job has a timeline of
\* two numbers, the second greater than the first.
C18_PublishedTimelinesOrdered ==
    (PipelineDone /\ RecordsJob.status = "completed") =>
        LET all == PublishedAppearances(RecordsJob.data[1])
        IN  \A k \in 1..Len(all) :
                /\ all[k].timeline.json = "<array>"
                /\ Len(all[k].timeline.items) = 2
                /\ all[k].timeline.items[2] > all[k].timeline.items[1]

\* the merge has returned a combined result
MergeDone == call.op = "merge" /\ ret # None /\ ~ret[1].outcome.raised

\* combined_brand_metrics of that result
MergedMetrics == ret[1].outcome.value.combined_brand_metrics

\* the analyses the merge was called with
InputAnalyses == [k \in 1..Len(call.individual) |-> call.individual[k][1]]

\* the per-video metrics whose brand is exactly b, in video order
EntriesOf(b) ==
    Concat([k \in 1..Len(InputAnalyses) |->
        SelectSeq(InputAnalyses[k].brand_metrics, LAMBDA m : m.brand = b)])

\* the brand names of the per-video metrics
InputBrands ==
    UNION {{InputAnalyses[k].brand_metrics[j].brand :
               j \in 1..Len(InputAnalyses[k].brand_metrics)} :
           k \in 1..Len(InputAnalyses)}

\* merged is the list of copies of the records of original, each with a
\* timeline as long as that of its original
AreOffsetCopies(merged, original) ==
    /\ Len(merged) = Len(original)
    /\ \A i \in 1..Len(original) :
          /\ [merged[i] EXCEPT !.timeline = original[i].timeline] = original[i]
          /\ merged[i].timeline[2] - merged[i].timeline[1]
                 = original[i].timeline[2] - original[i].timeline[1]

\* C21: the combined metrics hold one entry for each brand name of the
\* per-video metrics, told apart by case; its total_exposure_time,
\* total_appearances, high_impact_moments, estimated_social_mentions and the
\* counts and exposure times of its sponsorship breakdown are the sums over
\* the per-video metrics of that name, its contexts are the union of theirs,
\* its appearances, ad_placements and in_game_placements are offset copies of
\* theirs in video order, and it has as many appearances as its
\* total_appearances says when every per-video entry has.
C21_MergedSums ==
    MergeDone =>
        /\ {MergedMetrics[i].brand : i \in 1..Len(MergedMetrics)} = InputBrands
        /\ Len(MergedMetrics) = Cardinality(InputBrands)
        /\ \A i \in 1..Len(MergedMetrics) :
              LET m == MergedMetrics[i]
                  es == EntriesOf(m.brand)
                  Sum(F(_)) == SumSeq([k \in 1..Len(es) |-> F(es[k])])
                  All(F(_)) == Concat([k \in 1..Len(es) |-> F(es[k])])
              IN  /\ m.total_exposure_time = Sum(LAMBDA e : e.total_exposure_time)
                  /\ m.total_appearances = Sum(LAMBDA e : e.total_appearances)
                  /\ m.high_impact_moments = Sum(LAMBDA e : e.high_impact_moments)
                  /\ m.estimated_social_mentions
                         = Sum(LAMBDA e : e.estimated_social_mentions)
                  /\ m.sponsorship_breakdown.ad_placements.count
                         = Sum(LAMBDA e : e.sponsorship_breakdown.ad_placements.count)
                  /\ m.sponsorship_breakdown.ad_placements.exposure_time
                         = Sum(LAMBDA e :
                               e.sponsorship_breakdown.ad_placements.exposure_time)
                  /\ m.sponsorship_breakdown.in_game_placements.count
                         = Sum(LAMBDA e :
                               e.sponsorship_breakdown.in_game_placements.count)
                  /\ m.sponsorship_breakdown.in_game_placements.exposure_time
                         = Sum(LAMBDA e :
                               e.sponsorship_breakdown.in_game_placements.exposure_time)
                  /\ m.contexts
                         = UNION {{es[k].contexts[j] : j \in 1..Len(es[k].contexts)} :
                                  k \in 1..Len(es)}
                  /\ AreOffsetCopies(m.appearances, All(LAMBDA e : e.appearances))
                  /\ AreOffsetCopies(m.ad_placements, All(LAMBDA e : e.ad_placements))
                  /\ AreOffsetCopies(m.in_game_placements,
                                     All(LAMBDA e : e.in_game_placements))
                  /\ (\A k \in 1..Len(es) :
                          Len(es[k].appearances) = es[k].total_appearances)
                     => Len(m.appearances) = m.total_appearances

\* three videos were merged: "Nike" is in the first and the third, "nike" in
\* the second, and the entry of "Nike" counts the three appearances of the
\* first and the third
C21_Witness ==
    /\ MergeDone
    /\ call.video_ids = <<"a", "b", "c">>
    /\ \E i \in 1..Len(MergedMetrics) :
          /\ MergedMetrics[i].brand = "Nike"
          /\ MergedMetrics[i].total_appearances = 3
          /\ Len(MergedMetrics[i].appearances) = 3
    /\ \E i \in 1..Len(MergedMetrics) : MergedMetrics[i].brand = "nike"

\* the percentages of a sponsorship breakdown, the first in tenths of a
\* percent and the second as a quotient, add up to at most 100
TenthsAtMost100(sb) ==
    sb.ad_placements.percentage_of_total
        + sb.in_game_placements.percentage_of_total <= 1000

\* both quotients are over the brand's total exposure, their common denominator
RatiosAtMost100(sb) ==
    LET a == sb.ad_placements.percentage_of_total
        g == sb.in_game_placements.percentage_of_total
    IN  /\ a.den = g.den
        /\ a.num + g.num <= 100 * a.den

\* C22: in the metrics of each video and in the combined metrics, the two
\* percentages of a brand whose total exposure is 0 are both 0, and those of
\* any other brand add up to at most 100 percent.
C22_BreakdownPercentages ==
    MergeDone =>
        /\ \A k \in 1..Len(InputAnalyses) :
              \A j \in 1..Len(InputAnalyses[k].brand_metrics) :
                  LET m == InputAnalyses[k].brand_metrics[j]
                      sb == m.sponsorship_breakdown
                  IN  IF m.total_exposure_time = 0
                      THEN /\ sb.ad_placements.percentage_of_total = 0
                           /\ sb.in_game_placements.percentage_of_total = 0
                      ELSE TenthsAtMost100(sb)
        /\ \A i \in 1..Len(MergedMetrics) :
              LET m == MergedMetrics[i]
                  sb == m.sponsorship_breakdown
              IN  IF m.total_exposure_time = 0
                  THEN /\ sb.ad_placements.percentage_of_total.num = 0
                       /\ sb.in_game_placements.percentage_of_total.num = 0
                  ELSE RatiosAtMost100(sb)

\* the quotient x is the arithmetic mean of the numbers of scores
IsMeanOf(x, scores) ==
    /\ scores # <<>>
    /\ x.num * Len(scores) = SumSeq(scores) * x.den

C26_MergeKeepsInputs ==
    (call.op = "merge" /\ ret # None) => ret[1].inputs = call.individual

\* the third video of a merge has an appearance, and its copy in the
\* combined raw_detections lies later than the appearance itself
C26_Witness ==
    /\ MergeDone
    /\ Len(InputAnalyses) = 3
    /\ InputAnalyses[3].raw_detections # <<>>
    /\ LET merged == ret[1].outcome.value.raw_detections
           last == InputAnalyses[3].raw_detections
       IN  merged[Len(merged)].timeline[1] > last[Len(last)].timeline[1]

\* the numbers the claim gives to sentiment_context, in hundredths
SentimentValue(a) ==
    CASE a.sentiment_context = "positive" -> 100
      [] a.sentiment_context = "negative" -> 0 - 100
      [] OTHER                            -> 0

\* C28: in the metrics of a video, the sentiment_score of a brand is the
\* average of 1, 0 and -1 for its positive, neutral and negative
\* appearances, rounded to two decimals, and a brand whose appearances are
\* all negative is not labelled positive.
C28_SentimentIsAverage ==
    (call.op = "metrics" /\ ret # None) =>
        \A j \in 1..Len(ret[1].brand_metrics) :
            LET m == ret[1].brand_metrics[j]
                values == [k \in 1..Len(m.appearances) |->
                              SentimentValue(m.appearances[k])]
            IN  /\ m.sentiment_score = RoundHalfEven(SumSeq(values), Len(values))
                /\ (\A k \in 1..Len(values) : values[k] < 0)
                       => m.sentiment_label # "positive"

\* the job dicts a thread has got from get_job and has not finished reading:
\* the lock was released when get_job returned
DictsBeingRead == Held(temp_status, poll_ref) \ {NoRef}

\* C23: the fields of a job dict are read under the lock that guards its
\* updates: from the get_job of a reader, the wait loop of a unit or the
\* status endpoint, to the end of its reads, no step of another thread
\* changes that dict.
C23_ReadsUnderLock ==
    [][\A o \in DictsBeingRead :
          Deref(statuses', detached', o) = Deref(statuses, detached, o)]_vars

\* C24: a record that lacks only sponsorship_category, and that validates
\* once the classifier has set it, is validated by the synchronous endpoint
\* and not salvaged or skipped as invalid.
C24_RepairBeforeValidation ==
    (call.op = "records" /\ ret # None) =>
        \A k \in 1..Len(call.raw) :
            (/\ call.raw[k].json = "<object>"
             /\ call.raw[k].sponsorship_category = Absent
             /\ Validates(Repaired(call.raw[k])))
            => validation_outcomes(call.raw)[k] = "validated"

\* C27: while the units of a multi-video job run, its progress is 0 before
\* the first unit is collected and then 80 * c / n without its fraction, c
\* of the n units being collected; it is at most 80 until all are, 85 once
\* the merge is announced, and above 85 only as the 100 of a completed job.
C27_UnitsShareOfProgress ==
    mpc \in {"running", "combining", "done"} =>
        LET p == MultiJob.progress
            n == Len(video_ids)
            c == completed_videos
        IN  /\ mpc = "running" =>
                  /\ p <= 80
                  /\ p * n <= 80 * c
                  /\ 80 * c < (p + 1) * n
            /\ mpc = "combining" => c = n /\ p = 85
            /\ mpc = "done" =>
                  /\ c = n
                  /\ p \in {85, 100}
                  /\ p = 100 <=> MultiJob.status = "completed"

\* two of three units are collected, whatever their outcome, and the job
\* stands at 53
C27_Witness ==
    /\ mpc = "running"
    /\ Len(video_ids) = 3
    /\ completed_videos = 2
    /\ MultiJob.progress = 53

TerminalStatuses == {"completed", "failed"}

\* the table holds a job for id that is completed or failed
IsTerminal(id) == id \in DOMAIN statuses /\ statuses[id].status \in TerminalStatuses

\* C29: under fair scheduling, once a single-video and a multi-video request
\* have been made, there comes a state in which the job of each is completed
\* or failed, the temporary job of each unit is completed or failed, and
\* each unit has left its wait loop and returned.
C29_JobsTerminate ==
    <>(/\ IsTerminal(jid[0])
       /\ IsTerminal(mjid)
       /\ \A u \in Units : IsTerminal(jid[u]) /\ pc[u] \in {"returned", "collected"})

\* both requests have ended: the two units used one temporary job, each has
\* returned, and the multi-video job and the single-video job are terminal
C29_Witness ==
    /\ mpc = "done"
    /\ pc[0] = "finished"
    /\ jid[1] = jid[2]
    /\ \A u \in Units : pc[u] = "collected"
    /\ IsTerminal(mjid)
    /\ IsTerminal(jid[0])

\* C30: no two units that run at the same time use the same temporary job.
C30_UnitsUseOwnJob ==
    \A u, w \in RunningUnits : u # w => jid[u] # jid[w]

====
